---- MODULE Spec2Model ----
(***************************************************************************)
(* atom_node: the execution engine (two-phase prepare/apply state machine, *)
(* confirm tokens, preview TTL, subprocess supervision, work directories)  *)
(* modelled from src/src/services/execution_service.rs and                 *)
(* src/src/repository/execution_repository.rs.                             *)
(*                                                                         *)
(* Every request handler is split at its database statements: one action   *)
(* is one statement together with the synchronous code that follows it up  *)
(* to the next statement, so that other tasks interleave exactly where the *)
(* tokio runtime can suspend the handler.                                  *)
(***************************************************************************)
EXTENDS Integers, Sequences, FiniteSets, TLC

\* ------------------------------------------------------------------ bounds

\* number of API calls (execute / prepare / apply / stop) issued in a run
MaxCalls == 2
\* number of clock reads that see the wall clock advanced since the last read
MaxTicks == 1

\* ------------------------------------------------------- program constants

\* execution_service.rs:20  const PREVIEW_TTL_MS: i64 = 10 * 60 * 1000
PREVIEW_TTL_MS == 10 * 60 * 1000

\* execution_service.rs:466  env!("CARGO_PKG_VERSION"), as semver
\* <<major, minor, patch>>.  The value is set by the crate manifest; a
\* representative version is used.
CARGO_PKG_VERSION == <<0, 2, 0>>

\* ------------------------------------------------------------ Option<T>

None == <<>>
Some(x) == <<x>>
IsSome(o) == o # <<>>
Unwrap(o) == o[1]

\* ------------------------------------------------------------ enums

\* models/execution.rs:22-25
ExecutionPhase == {"Prepare", "Apply"}

\* models/execution.rs:29-37
ExecutionStatus ==
  {"Pending", "Running", "PreviewReady", "Applying", "Completed", "Failed", "Stopped"}

\* models/plugin.rs:26-29
PluginType == {"Python", "JavaScript"}

\* Result<T>: Ok(value) or Err(AppError variant, message tag)
Ok(v) == [ok |-> TRUE, value |-> v, err |-> <<>>]
Err(variant, msg) == [ok |-> FALSE, value |-> <<>>, err |-> <<variant, msg>>]

\* ------------------------------------------------- parameter engine (pure)

\* characters of a parameter name; names are sequences of characters so that
\* str::trim can be computed
Space == " "

RECURSIVE TrimStart(_)
TrimStart(s) ==
  IF s # <<>> /\ Head(s) = Space THEN TrimStart(Tail(s)) ELSE s

RECURSIVE TrimEnd(_)
TrimEnd(s) ==
  IF s # <<>> /\ s[Len(s)] = Space THEN TrimEnd(SubSeq(s, 1, Len(s) - 1)) ELSE s

\* str::trim
Trim(s) == TrimEnd(TrimStart(s))

\* the element of a set of one element; { f(x) : x \in {e} } is f of the
\* value of e, with e computed once
The(S) == CHOOSE x \in S : TRUE

\* ------------------------------------------------- JSON text (serde_json)

\* A JSON text is a string: a sequence of characters, written one by one
\* where the code tells them apart (quote, backslash, punctuation, space,
\* dot, digits) and as one word otherwise ("name").  serde_json::to_string
\* writes it without whitespace; serde_json::from_str reads it token by
\* token.  A JSON value of the model is a pair <<json type, literal>>, the
\* literal being the characters serde_json writes for it; the values are
\* scalars, and lists of scalars where the code has a Vec<Value>.
Quote == "\""
Backslash == "\\"
Dot == "."

Punctuation == {"[", "]", "{", "}", ",", ":"}

Digits == {"0", "1", "2", "3", "4", "5", "6", "7", "8", "9"}

NullText == <<"null">>
TrueText == <<"true">>
FalseText == <<"false">>

JsonNull == <<"null", NullText>>
Int1 == <<"integer", <<"1">> >>
Int2 == <<"integer", <<"2">> >>
Int3 == <<"integer", <<"3">> >>
Float15 == <<"float", <<"1", Dot, "5">> >>
StringA == <<"string", <<"a">> >>
BoolTrue == <<"boolean", TrueText>>

\* the keys of PluginParameter (models/plugin.rs:54-60, `type` by its serde
\* rename; choices as read at execution_service.rs:437-448) and of
\* PythonDependencies (models/plugin.rs:62-67, tag = "source")
Key_name == <<"name">>
Key_type == <<"type">>
Key_description == <<"description">>
Key_default == <<"default">>
Key_choices == <<"choices">>
Key_source == <<"source">>
Key_path == <<"path">>

PluginParamTypes == {"string", "number", "integer", "boolean", "json"}

\* models/plugin.rs:32  rename_all = "lowercase"
ParamTypeTag(param_type) ==
  CASE param_type = "string"  -> <<"string">>
    [] param_type = "number"  -> <<"number">>
    [] param_type = "integer" -> <<"integer">>
    [] param_type = "boolean" -> <<"boolean">>
    [] param_type = "json"    -> <<"json">>

DependencyKinds == {"Requirements", "Pyproject"}

\* models/plugin.rs:63  rename_all = "snake_case"
DependencyTag(kind) ==
  CASE kind = "Requirements" -> <<"requirements">>
    [] kind = "Pyproject"    -> <<"pyproject">>

\* the characters of a string as written between the quotes: a quote and a
\* backslash are escaped
RECURSIVE Escape(_)
Escape(s) ==
  IF s = <<>> THEN <<>>
  ELSE (IF Head(s) \in {Quote, Backslash} THEN <<Backslash, Head(s)>>
        ELSE <<Head(s)>>) \o Escape(Tail(s))

\* the characters a string literal stands for
RECURSIVE Unescape(_)
Unescape(s) ==
  IF s = <<>> THEN <<>>
  ELSE IF Head(s) = Backslash /\ Len(s) >= 2
    THEN <<s[2]>> \o Unescape(SubSeq(s, 3, Len(s)))
  ELSE <<Head(s)>> \o Unescape(Tail(s))

JsonString(s) == <<Quote>> \o Escape(s) \o <<Quote>>

\* texts joined by commas
RECURSIVE Joined(_)
Joined(texts) ==
  IF texts = <<>> THEN <<>>
  ELSE IF Len(texts) = 1 THEN Head(texts)
  ELSE Head(texts) \o <<",">> \o Joined(Tail(texts))

JsonArray(texts) == <<"[">> \o Joined(texts) \o <<"]">>

JsonMember(key, text) == JsonString(key) \o <<":">> \o text

JsonObject(members) == <<"{">> \o Joined(members) \o <<"}">>

\* faulty variant of ValueJson: a string is written without its quotes
ValueJson_unquoted(value) == value[2]

\* Serialize of serde_json::Value
ValueJson(value) ==
  IF value[1] = "string" THEN JsonString(value[2]) ELSE value[2]

\* derive(Serialize) of PluginParameter: every field is written, None as null
ParameterJson(param) ==
  JsonObject(<<
    JsonMember(Key_name, JsonString(param.name)),
    JsonMember(Key_type, JsonString(ParamTypeTag(param.param_type))),
    JsonMember(Key_description,
               IF IsSome(param.description)
               THEN JsonString(Unwrap(param.description)) ELSE NullText),
    JsonMember(Key_default,
               IF IsSome(param.default)
               THEN ValueJson(Unwrap(param.default)) ELSE NullText),
    JsonMember(Key_choices,
               IF IsSome(param.choices)
               THEN JsonArray([i \in 1..Len(Unwrap(param.choices)) |->
                                 ValueJson(Unwrap(param.choices)[i])])
               ELSE NullText) >>)

\* plugin_service.rs:798  serde_json::to_string(&parameters)
to_string(parameters) ==
  JsonArray([i \in 1..Len(parameters) |-> ParameterJson(parameters[i])])

\* derive(Serialize) of PythonDependencies: the tag, then the path
DependenciesJson(deps) ==
  JsonObject(<< JsonMember(Key_source, JsonString(DependencyTag(deps.kind))),
                JsonMember(Key_path, JsonString(deps.path)) >>)

\* the index of the quote that closes the string literal whose characters
\* start at i; 0 when it is not closed
RECURSIVE StringEnd(_, _)
StringEnd(text, i) ==
  IF i > Len(text) THEN 0
  ELSE IF text[i] = Quote THEN i
  ELSE IF text[i] = Backslash THEN StringEnd(text, i + 2)
  ELSE StringEnd(text, i + 1)

\* the index of the last character of the number or word that holds i
RECURSIVE WordEnd(_, _)
WordEnd(text, i) ==
  IF i = Len(text) THEN i
  ELSE IF text[i + 1] \in Punctuation \cup {Space, Quote} THEN i
  ELSE WordEnd(text, i + 1)

RECURSIVE SkipSpace(_, _)
SkipSpace(text, i) ==
  IF i <= Len(text) /\ text[i] = Space THEN SkipSpace(text, i + 1) ELSE i

\* the index of the last character of the token that starts at i: a
\* punctuation mark, a string literal with its quotes, a number or a word; 0
\* when a string literal is not closed
TokenEnd(text, i) ==
  IF text[i] \in Punctuation THEN i
  ELSE IF text[i] = Quote THEN StringEnd(text, i + 1)
  ELSE WordEnd(text, i)

\* the token at or after i, whitespace skipped, and the index after it; the
\* token is empty at the end of the text and in an unclosed literal
Token(text, i) ==
  LET j == SkipSpace(text, i)
      end == TokenEnd(text, j)
  IN IF j > Len(text) \/ end = 0 THEN [tok |-> <<>>, next |-> j]
     ELSE [tok |-> SubSeq(text, j, end), next |-> end + 1]

\* nothing but whitespace from i on
AtEnd(text, i) == SkipSpace(text, i) > Len(text)

IsString(tok) == tok # <<>> /\ tok[1] = Quote

IsNumber(tok) ==
  /\ tok # <<>>
  /\ tok[1] \in Digits \cup {"-"}
  /\ \A i \in 1..Len(tok) : tok[i] \in Digits \cup {Dot, "-", "+", "e", "E"}

IsScalar(tok) ==
  IsString(tok) \/ tok \in {NullText, TrueText, FalseText} \/ IsNumber(tok)

\* the characters of a string literal
StringOf(tok) == Unescape(SubSeq(tok, 2, Len(tok) - 1))

\* Deserialize of serde_json::Value from a scalar token: a number with a
\* fraction or an exponent is a float
ScalarValue(tok) ==
  IF IsString(tok) THEN <<"string", StringOf(tok)>>
  ELSE IF tok = NullText THEN JsonNull
  ELSE IF tok \in {TrueText, FalseText} THEN <<"boolean", tok>>
  ELSE IF \E i \in 1..Len(tok) : tok[i] \in {Dot, "e", "E"}
    THEN <<"float", tok>>
  ELSE <<"integer", tok>>

\* the scalars of a list whose tokens start at i, after its "[" and after
\* items: the items and the index after the list, or None; "]" closes an
\* empty list only, so a comma before it is an error
RECURSIVE Items(_, _, _)
Items(text, i, items) ==
  The({
    IF item.tok = <<"]">>
      THEN IF items = <<>> THEN Some([items |-> items, next |-> item.next])
           ELSE None
    ELSE IF ~IsScalar(item.tok) THEN None
    ELSE The({
      IF sep.tok = <<"]">>
        THEN Some([items |-> more, next |-> sep.next])
      ELSE IF sep.tok = <<",">>
        THEN Items(text, sep.next, more)
      ELSE None :
        sep \in {Token(text, item.next)},
        more \in {Append(items, item.tok)} }) :
      item \in {Token(text, i)} })

\* the value whose tokens start at i, a scalar or a list of scalars, and the
\* index after it, or None
Node(text, i) ==
  The({
    IF first.tok = <<"[">>
      THEN The({ IF ~IsSome(list) THEN None
                 ELSE Some([array |-> TRUE, items |-> Unwrap(list).items,
                            next |-> Unwrap(list).next]) :
                   list \in {Items(text, first.next, <<>>)} })
    ELSE IF IsScalar(first.tok)
      THEN Some([array |-> FALSE, items |-> <<first.tok>>, next |-> first.next])
    ELSE None :
      first \in {Token(text, i)} })

\* the members of an object whose tokens start at i, after its "{" and after
\* fields: the value of each key, the keys met twice and the index after the
\* object, or None; "}" closes an empty object only, so a comma before it
\* is an error
RECURSIVE Members(_, _, _, _)
Members(text, i, fields, twice) ==
  The({
    IF key.tok = <<"}">>
      THEN IF DOMAIN fields = {}
           THEN Some([fields |-> fields, twice |-> twice, next |-> key.next])
           ELSE None
    ELSE IF ~IsString(key.tok) THEN None
    ELSE The({
      IF colon.tok # <<":">> THEN None
      ELSE The({
        IF ~IsSome(node) THEN None
        ELSE The({
          IF sep.tok = <<"}">>
            THEN Some([fields |-> seen[1], twice |-> seen[2], next |-> sep.next])
          ELSE IF sep.tok = <<",">>
            THEN Members(text, sep.next, seen[1], seen[2])
          ELSE None :
            sep \in {Token(text, Unwrap(node).next)},
            seen \in { IF name \in DOMAIN fields
                       THEN <<fields, twice \cup {name}>>
                       ELSE <<fields @@ (name :>
                                           [array |-> Unwrap(node).array,
                                            items |-> Unwrap(node).items]),
                              twice>> } }) :
          node \in {Node(text, colon.next)} }) :
        colon \in {Token(text, key.next)}, name \in {StringOf(key.tok)} }) :
      key \in {Token(text, i)} })

\* a field that is absent or null: None of an Option
IsNone(fields, key) ==
  key \notin DOMAIN fields
  \/ (~fields[key].array /\ fields[key].items[1] = NullText)

IsStringField(fields, key) ==
  /\ key \in DOMAIN fields
  /\ ~fields[key].array
  /\ IsString(fields[key].items[1])

\* derive(Deserialize) of PluginParameter: name and type must be there, type
\* one of the five tags; an Option is None when absent or null; a known key
\* met twice is an error and an unknown key is skipped
IsParameter(fields, twice) ==
  /\ twice \cap {Key_name, Key_type, Key_description, Key_default,
                 Key_choices} = {}
  /\ IsStringField(fields, Key_name)
  /\ IsStringField(fields, Key_type)
  /\ \E t \in PluginParamTypes :
       ParamTypeTag(t) = StringOf(fields[Key_type].items[1])
  /\ IsNone(fields, Key_description) \/ IsStringField(fields, Key_description)
  /\ IsNone(fields, Key_default) \/ ~fields[Key_default].array
  /\ IsNone(fields, Key_choices) \/ fields[Key_choices].array

ParameterOf(fields) ==
  [ name |-> StringOf(fields[Key_name].items[1]),
    param_type |-> CHOOSE t \in PluginParamTypes :
                     ParamTypeTag(t) = StringOf(fields[Key_type].items[1]),
    description |-> IF IsNone(fields, Key_description) THEN None
                    ELSE Some(StringOf(fields[Key_description].items[1])),
    default |-> IF IsNone(fields, Key_default) THEN None
                ELSE Some(ScalarValue(fields[Key_default].items[1])),
    choices |-> IF IsNone(fields, Key_choices) THEN None
                ELSE Some([i \in 1..Len(fields[Key_choices].items) |->
                             ScalarValue(fields[Key_choices].items[i])]) ]

\* the parameters of a list whose tokens start at i, after its "[" and
\* after acc, or None
RECURSIVE Parameters(_, _, _)
Parameters(text, i, acc) ==
  The({
    IF open.tok # <<"{">> THEN None
    ELSE The({
      IF ~IsSome(object) THEN None
      ELSE IF ~IsParameter(Unwrap(object).fields, Unwrap(object).twice) THEN None
      ELSE The({
        IF sep.tok = <<"]">> /\ AtEnd(text, sep.next)
          THEN Some(more)
        ELSE IF sep.tok = <<",">>
          THEN Parameters(text, sep.next, more)
        ELSE None :
          sep \in {Token(text, Unwrap(object).next)},
          more \in {Append(acc, ParameterOf(Unwrap(object).fields))} }) :
        object \in {Members(text, open.next, <<>>, {})} }) :
      open \in {Token(text, i)} })

\* execution_service.rs:490  serde_json::from_str::<Vec<PluginParameter>>:
\* the list, or None for an error
from_str_parameters(text) ==
  The({ IF open.tok # <<"[">> THEN None
        ELSE The({ IF close.tok = <<"]">>
                     THEN IF AtEnd(text, close.next) THEN Some(<<>>) ELSE None
                   ELSE Parameters(text, open.next, <<>>) :
                     close \in {Token(text, open.next)} }) :
          open \in {Token(text, 1)} })

\* derive(Deserialize) of PythonDependencies: the variant is read from the
\* tag, the path from its key
IsDependencies(fields, twice) ==
  /\ twice \cap {Key_source, Key_path} = {}
  /\ IsStringField(fields, Key_source)
  /\ IsStringField(fields, Key_path)
  /\ \E k \in DependencyKinds :
       DependencyTag(k) = StringOf(fields[Key_source].items[1])

\* api/dto/plugin.rs:72  serde_json::from_str::<PythonDependencies>: the
\* variant, or None for an error
from_str_dependencies(text) ==
  LET open == Token(text, 1) IN
  IF open.tok # <<"{">> THEN None
  ELSE The({
    IF ~IsSome(object) THEN None
    ELSE IF ~AtEnd(text, Unwrap(object).next) THEN None
    ELSE IF ~IsDependencies(Unwrap(object).fields, Unwrap(object).twice)
      THEN None
    ELSE Some([kind |-> CHOOSE k \in DependencyKinds :
                          DependencyTag(k) =
                            StringOf(Unwrap(object).fields[Key_source].items[1]),
               path |-> StringOf(Unwrap(object).fields[Key_path].items[1])]) :
      object \in {Members(text, open.next, <<>>, {})} })

\* plugin_service.rs:661-668  serialize_python_dependencies
serialize_python_dependencies(deps) == Ok(DependenciesJson(deps))

\* api/dto/plugin.rs:62-76  parse_python_dependencies
parse_python_dependencies(raw) ==
  IF ~IsSome(raw) THEN Ok(None)
  ELSE IF Trim(Unwrap(raw)) = <<>> THEN Ok(None)
  ELSE The({
    IF ~IsSome(dependencies)
      THEN Err("Execution", "Invalid python dependencies")
    ELSE Ok(dependencies) :
      dependencies \in {from_str_dependencies(Trim(Unwrap(raw)))} })

\* models/plugin.rs:42-50  PluginParamType::matches
Matches(param_type, value) ==
  CASE param_type = "string"  -> value[1] = "string"
    [] param_type = "number"  -> value[1] \in {"integer", "float"}
    [] param_type = "integer" -> value[1] = "integer"
    [] param_type = "boolean" -> value[1] = "boolean"
    [] param_type = "json"    -> TRUE

\* faulty variant of ensure_choice: every value passes
EnsureChoice_accepts_all(param, value) == TRUE

\* execution_service.rs:437-448  ensure_choice (TRUE when Ok)
EnsureChoice(param, value) ==
  IF ~IsSome(param.choices) THEN TRUE
  ELSE \E i \in 1..Len(Unwrap(param.choices)) : Unwrap(param.choices)[i] = value

\* execution_service.rs:482-493  parse_parameters
ParseParameters(raw) ==
  IF ~IsSome(raw) THEN Ok(<<>>)
  ELSE IF Trim(Unwrap(raw)) = <<>> THEN Ok(<<>>)
  ELSE The({ The({
    IF ~IsSome(parameters) THEN Err("Execution", "Invalid plugin parameters")
    ELSE Ok(Unwrap(parameters)) :
      parameters \in {from_str_parameters(trimmed)} }) :
        trimmed \in {Trim(Unwrap(raw))} })

\* execution_service.rs:382-402  the schema_map loop: first failing parameter
\* decides; TRUE when every name is non-empty, trimmed and unique
SchemaNamesOk(schema) ==
  /\ \A i \in 1..Len(schema) :
       /\ Trim(schema[i].name) # <<>>
       /\ Trim(schema[i].name) = schema[i].name
  /\ \A i, j \in 1..Len(schema) : i < j => schema[i].name # schema[j].name

SchemaParam(schema, name) ==
  schema[CHOOSE i \in 1..Len(schema) : schema[i].name = name]

\* faulty variant of resolve_parameters: a default is taken without looking
\* at the choices
ResolveParameters_default_unchecked(raw_parameters, provided) ==
  The({
  IF ~parsed.ok THEN parsed
  ELSE
    LET schema == parsed.value
        names  == {schema[i].name : i \in 1..Len(schema)}
    IN
    IF schema = <<>> THEN
      IF DOMAIN provided = {} THEN Ok(<<>>)
      ELSE Err("Execution", "Plugin does not declare parameters")
    ELSE IF ~SchemaNamesOk(schema) THEN Err("Execution", "Invalid parameter name")
    ELSE IF \E n \in DOMAIN provided :
              \/ n \notin names
              \/ ~Matches(SchemaParam(schema, n).param_type, provided[n])
              \/ ~EnsureChoice(SchemaParam(schema, n), provided[n])
         THEN Err("Execution", "Invalid provided parameter")
    ELSE IF \E i \in 1..Len(schema) :
              /\ schema[i].name \notin DOMAIN provided
              /\ ~IsSome(schema[i].default)
         THEN Err("Execution", "Missing required parameter")
    ELSE Ok([n \in names |->
              IF n \in DOMAIN provided THEN provided[n]
              ELSE Unwrap(SchemaParam(schema, n).default)]) :
    parsed \in {ParseParameters(raw_parameters)} })

\* execution_service.rs:368-435  resolve_parameters.  provided is a map
\* (function) from names to JSON values.
ResolveParameters(raw_parameters, provided) ==
  The({
  IF ~parsed.ok THEN parsed
  ELSE
    LET schema == parsed.value
        names  == {schema[i].name : i \in 1..Len(schema)}
    IN
    IF schema = <<>> THEN
      IF DOMAIN provided = {} THEN Ok(<<>>)
      ELSE Err("Execution", "Plugin does not declare parameters")
    ELSE IF ~SchemaNamesOk(schema) THEN Err("Execution", "Invalid parameter name")
    ELSE IF \E n \in DOMAIN provided :
              \/ n \notin names
              \/ ~Matches(SchemaParam(schema, n).param_type, provided[n])
              \/ ~EnsureChoice(SchemaParam(schema, n), provided[n])
         THEN Err("Execution", "Invalid provided parameter")
    ELSE IF \E i \in 1..Len(schema) :
              /\ schema[i].name \notin DOMAIN provided
              /\ \/ ~IsSome(schema[i].default)
                 \/ ~EnsureChoice(schema[i], Unwrap(schema[i].default))
         THEN Err("Execution", "Missing required parameter")
    ELSE Ok([n \in names |->
              IF n \in DOMAIN provided THEN provided[n]
              ELSE Unwrap(SchemaParam(schema, n).default)]) :
    parsed \in {ParseParameters(raw_parameters)} })

\* semver ordering on <<major, minor, patch>>
VersionLess(a, b) ==
  \/ a[1] < b[1]
  \/ a[1] = b[1] /\ a[2] < b[2]
  \/ a[1] = b[1] /\ a[2] = b[2] /\ a[3] < b[3]

\* faulty variant of ensure_min_atom_node_version: every requirement passes
EnsureMinAtomNodeVersion_accepts_all(required) == Ok(<<>>)

\* execution_service.rs:450-480  ensure_min_atom_node_version.  The stored
\* text is modelled by what trim and Version::parse make of it: kind "blank",
\* "invalid" or "semver" with its version.
EnsureMinAtomNodeVersion(required) ==
  IF ~IsSome(required) THEN Ok(<<>>)
  ELSE IF Unwrap(required).kind = "blank"
    THEN Err("Execution", "Minimum atom_node version cannot be empty")
  ELSE IF Unwrap(required).kind = "invalid"
    THEN Err("Execution", "Invalid minimum atom_node version")
  ELSE IF VersionLess(CARGO_PKG_VERSION, Unwrap(required).version)
    THEN Err("Execution", "Plugin requires newer atom_node")
  ELSE Ok(<<>>)

\* ------------------------------------------------------------ repository

\* execution_repository.rs:16-55  create_with_phase: the row it inserts
NewExecution(id, plugin_id, phase, t) ==
  [ id |-> id, plugin_id |-> plugin_id, phase |-> phase, status |-> "Pending",
    pid |-> None, exit_code |-> None, stdout |-> None, stderr |-> None,
    preview_payload |-> None, confirm_token |-> None, expires_at |-> None,
    started_at |-> t, finished_at |-> None ]

\* execution_repository.rs:40-52  INSERT INTO executions
create_with_phase(table, id, plugin_id, phase, t) ==
  table @@ (id :> NewExecution(id, plugin_id, phase, t))

\* connection.rs:54  FOREIGN KEY (plugin_id) REFERENCES plugins(plugin_id):
\* an execution row can be inserted only for a plugin row that exists
references_plugin(plugin_table, plugin_id) == plugin_id \in DOMAIN plugin_table

\* faulty variant of delete_cascade: the execution rows stay
delete_cascade_keeps_rows(table, plugin_id) == table

\* connection.rs:54  ON DELETE CASCADE: the execution rows that go with the
\* plugin row plugin_id when that is deleted
delete_cascade(table, plugin_id) ==
  [e \in {x \in DOMAIN table : table[x].plugin_id # plugin_id} |-> table[e]]

\* UPDATE executions SET <columns of set> WHERE id = ?: the columns named in
\* `set` take its values in the row with that id; a missing id affects no row
UpdateWhereId(table, id, set) ==
  [e \in DOMAIN table |->
     IF e = id
     THEN [col \in DOMAIN table[e] |->
             IF col \in DOMAIN set THEN set[col] ELSE table[e][col]]
     ELSE table[e]]

\* execution_repository.rs:87-96
update_pid(table, id, pid) ==
  UpdateWhereId(table, id, [pid |-> Some(pid), status |-> "Running"])

\* execution_repository.rs:98-123
update_result(table, id, stdout, stderr, exit_code, status, t) ==
  UpdateWhereId(table, id,
    [stdout |-> stdout, stderr |-> stderr, exit_code |-> exit_code,
     status |-> status, finished_at |-> Some(t)])

\* faulty variant of mark_preview_ready: the expiry is taken from the clock
\* read of the statement itself instead of the value passed in
mark_preview_ready_expiry_from_finish(table, id, stdout, stderr, exit_code, confirm_token, expires_at, t) ==
  UpdateWhereId(table, id,
    [stdout |-> stdout, stderr |-> stderr, exit_code |-> exit_code,
     status |-> "PreviewReady", finished_at |-> Some(t),
     preview_payload |-> stdout, confirm_token |-> Some(confirm_token),
     expires_at |-> Some(t + PREVIEW_TTL_MS)])

\* execution_repository.rs:125-153
mark_preview_ready(table, id, stdout, stderr, exit_code, confirm_token, expires_at, t) ==
  UpdateWhereId(table, id,
    [stdout |-> stdout, stderr |-> stderr, exit_code |-> exit_code,
     status |-> "PreviewReady", finished_at |-> Some(t),
     preview_payload |-> stdout, confirm_token |-> Some(confirm_token),
     expires_at |-> Some(expires_at)])

\* faulty variant of begin_apply: the stored plan is cleared with the rest
begin_apply_clears_payload(table, id, t) ==
  UpdateWhereId(table, id,
    [phase |-> "Apply", status |-> "Pending", pid |-> None, exit_code |-> None,
     stdout |-> None, stderr |-> None, started_at |-> t, finished_at |-> None,
     confirm_token |-> None, preview_payload |-> None])

\* execution_repository.rs:155-170
begin_apply(table, id, t) ==
  UpdateWhereId(table, id,
    [phase |-> "Apply", status |-> "Pending", pid |-> None, exit_code |-> None,
     stdout |-> None, stderr |-> None, started_at |-> t, finished_at |-> None,
     confirm_token |-> None])

\* execution_repository.rs:172-180
update_status(table, id, status) ==
  UpdateWhereId(table, id, [status |-> status])

\* execution_repository.rs:57-65  get
exec_get(table, id) ==
  IF id \in DOMAIN table THEN Ok(table[id]) ELSE Err("ExecutionNotFound", "")

\* plugin_repository.rs:32-47  get
\* faulty variant of get: no row is ever found
plugin_get_finds_nothing(table, plugin_id) == Err("PluginNotFound", "")

plugin_get(table, plugin_id) ==
  IF plugin_id \in DOMAIN table THEN Ok(table[plugin_id])
  ELSE Err("PluginNotFound", "")

\* ------------------------------------------------------------ executor

\* python_executor.rs:27-103  PythonExecutor::execute.  entry_is_file and
\* venv_python_is_file are what the filesystem answers at the time of the
\* call, spawn_ok whether the operating system starts the process.
python_execute(plugin, entry_is_file, venv_python_is_file, spawn_ok) ==
  IF ~entry_is_file THEN Err("Execution", "Entry point not found")
  ELSE IF IsSome(plugin.python_venv_path) /\ Unwrap(plugin.python_venv_path) # ""
          /\ ~venv_python_is_file
    THEN Err("Execution", "Python venv not found")
  ELSE IF ~spawn_ok THEN Err("Io", "spawn")
  ELSE Ok(<<>>)

\* NodeExecutor::execute (script runtime): the interpreter is resolved from a
\* configured path or default name and the child is spawned
node_execute(plugin, entry_is_file, venv_python_is_file, spawn_ok) ==
  IF ~spawn_ok THEN Err("Io", "spawn") ELSE Ok(<<>>)

\* execution_service.rs:239-250  dispatch on plugin_type
executor_execute(plugin, entry_is_file, venv_python_is_file, spawn_ok) ==
  IF plugin.plugin_type = "Python"
  THEN python_execute(plugin, entry_is_file, venv_python_is_file, spawn_ok)
  ELSE node_execute(plugin, entry_is_file, venv_python_is_file, spawn_ok)

\* faulty variant of work_dir_for: one directory for every execution
work_dir_for_shared(execution_id) == <<"shared">>

\* execution_service.rs:363-366  work_dir_for: <install_root>/work_dir/<id>,
\* named by its last path segment
work_dir_for(execution_id) == execution_id

\* ------------------------------------------------------------ inputs

Name_x == <<"x">>

\* parameter schema of the first plugin: one integer parameter with a default
\* and choices
SchemaX ==
  << [ name |-> Name_x, param_type |-> "integer", description |-> None,
       default |-> Some(Int1), choices |-> Some(<<Int1, Int2>>) ] >>

\* the plugin row the store may hold when the node starts (plugin_id "p"):
\* an interpreter-runtime plugin that can run, the same disabled, or the same
\* requiring a newer host
BasePlugin ==
  [ plugin_id |-> "p", plugin_type |-> "Python", enabled |-> TRUE,
    min_atom_node_version |->
      Some([kind |-> "semver", version |-> <<0, 1, 0>>]),
    parameters |-> Some(to_string(SchemaX)),
    python_venv_path |-> Some("venv") ]

InitPlugins ==
  { BasePlugin,
    [BasePlugin EXCEPT !.enabled = FALSE],
    [BasePlugin EXCEPT !.min_atom_node_version =
                         Some([kind |-> "semver", version |-> <<0, 3, 0>>])] }

\* params maps a caller may send
ParamInputs == { <<>>, (Name_x :> Int3) }

\* <<plugin id, params>> of a call: the installed plugin with either params
\* map, or an unknown plugin
PluginInputs == ({"p"} \X ParamInputs) \cup {<<"q", <<>> >>}

\* what a child process can do: wait() fails, or it ends with an exit code
\* (none when killed by a signal) and has written stdout / stderr
ChildOutcomes ==
  { [wait_ok |-> TRUE,  exit_code |-> Some(0), stdout |-> "PLAN", stderr |-> ""],
    [wait_ok |-> TRUE,  exit_code |-> Some(0), stdout |-> "",     stderr |-> ""],
    [wait_ok |-> TRUE,  exit_code |-> Some(1), stdout |-> "",     stderr |-> "boom"],
    [wait_ok |-> TRUE,  exit_code |-> Some(1), stdout |-> "",     stderr |-> ""],
    [wait_ok |-> TRUE,  exit_code |-> None,    stdout |-> "",     stderr |-> ""],
    [wait_ok |-> FALSE, exit_code |-> None,    stdout |-> "",     stderr |-> ""] }

\* how far apply's expiry check may find the wall clock advanced since the
\* last read: by the life of a preview, or just past it
TickSteps == {PREVIEW_TTL_MS, PREVIEW_TTL_MS + 1}

\* how far the second of two clock reads in a row may find it advanced
SkewSteps == {1}

\* uuid::Uuid::new_v4(): a value distinct from every other one generated,
\* named by what it is generated for ("execution" or "token") and by the call
\* that generates it (a call creates at most one execution, its supervisor
\* issues at most one token)
UuidV4(for, c) == <<"uuid", for, c>>

\* a confirm token no prepare ever issued
WrongToken == <<"WRONG">>
\* an execution id never created
UnknownId == <<"unknown">>

\* ------------------------------------------------- strings and paths

\* A string is a sequence of characters.  The characters that the code
\* tells apart are written one by one: the separators, the dot, the space; a
\* run of other characters is written as one word ("main.py").
Sep == "/"

\* str::split('/'): the segments between separators, empty ones included
RECURSIVE Split(_)
Split(s) ==
  IF s = <<>> THEN << <<>> >>
  ELSE LET rest == Split(Tail(s)) IN
       IF Head(s) = Sep THEN << <<>> >> \o rest
       ELSE << <<Head(s)>> \o Head(rest) >> \o Tail(rest)

CurDir == <<Dot>>
ParentDir == <<Dot, Dot>>

SelectSeq2(seq, keep) ==
  LET Test(i) == i \in keep
      RECURSIVE Pick(_)
      Pick(i) == IF i > Len(seq) THEN <<>>
                 ELSE (IF Test(i) THEN <<seq[i]>> ELSE <<>>) \o Pick(i + 1)
  IN Pick(1)

\* Path::is_absolute / has_root on POSIX
IsAbsolute(s) == s # <<>> /\ Head(s) = Sep

\* Path::components without the root: empty segments (repeated or trailing
\* separators) are dropped, and so is "." except as the first component of a
\* relative path
Components(s) ==
  LET segs == Split(s)
  IN SelectSeq2(segs,
       {i \in 1..Len(segs) :
          /\ segs[i] # <<>>
          /\ segs[i] = CurDir => (i = 1 /\ ~IsAbsolute(s))})

\* a path is a record: whether it has a root, and its components
PathOf(s) == [absolute |-> IsAbsolute(s), comps |-> Components(s)]

\* Path::join: an absolute right-hand side replaces the left-hand side
PathJoin(base, s) ==
  IF IsAbsolute(s) THEN PathOf(s)
  ELSE [absolute |-> base.absolute,
        comps |-> base.comps \o SelectSeq2(Components(s),
                     {i \in 1..Len(Components(s)) :
                        base.comps = <<>> \/ Components(s)[i] # CurDir})]

\* Path::parent: without the last component; None for a root or an empty path
PathParent(path) ==
  IF path.comps = <<>> THEN None
  ELSE Some([path EXCEPT !.comps = SubSeq(path.comps, 1, Len(path.comps) - 1)])

\* the file or directory the operating system reaches through a path: "."
\* stays, ".." goes up (not above the root)
RECURSIVE ResolveComps(_, _)
ResolveComps(done, todo) ==
  IF todo = <<>> THEN done
  ELSE IF Head(todo) = CurDir THEN ResolveComps(done, Tail(todo))
  ELSE IF Head(todo) = ParentDir
    THEN ResolveComps(IF done = <<>> THEN done
                      ELSE SubSeq(done, 1, Len(done) - 1), Tail(todo))
  ELSE ResolveComps(Append(done, Head(todo)), Tail(todo))

\* paths::install_root: the process environment is read at every call and
\* does not change while the node runs; the root is resolved
InstallRoot == [absolute |-> TRUE, comps |-> << <<"root">> >>]

\* a relative path is taken from the working directory, the install root
Resolve(path) ==
  ResolveComps(IF path.absolute THEN <<>> ELSE InstallRoot.comps, path.comps)

IsPrefix(a, b) == Len(a) <= Len(b) /\ SubSeq(b, 1, Len(a)) = a

\* ------------------------------------------------------------ filesystem

\* files and dirs hold resolved locations
NoDisk == [files |-> {}, dirs |-> {}]

\* Path::is_file / Path::is_dir
is_file(d, path) == Resolve(path) \in d.files
is_dir(d, path) == Resolve(path) \in d.dirs

\* every directory on the way to a location
Ancestors(at) == {SubSeq(at, 1, n) : n \in 1..Len(at)}

\* fs::create_dir_all: mkdir of every missing directory the path names on
\* its way, a/.. making a
create_dir_all(d, path) ==
  [d EXCEPT !.dirs = @ \cup UNION
     { Ancestors(Resolve([path EXCEPT !.comps = SubSeq(path.comps, 1, n)])) :
         n \in 0..Len(path.comps) }]

\* fs::File::create and write_all
write_file(d, path) == [d EXCEPT !.files = @ \cup {Resolve(path)}]

\* fs::remove_dir_all: the directory and everything below it
remove_dir_all(d, path) ==
  LET at == Resolve(path)
  IN [files |-> {f \in d.files : ~IsPrefix(at, f)},
      dirs |-> {f \in d.dirs : ~IsPrefix(at, f)}]

\* fs::create_dir_all fails when a location on the way is a file
create_dir_all_ok(d, path) ==
  \A n \in 0..Len(path.comps) :
    Resolve([path EXCEPT !.comps = SubSeq(path.comps, 1, n)]) \notin d.files

\* fs::File::create fails on a directory, or when the parent is missing
create_file_ok(d, path) ==
  /\ Resolve(path) \notin d.dirs
  /\ path.comps # <<>>
  /\ is_dir(d, Unwrap(PathParent(path)))

\* --------------------------------------------------------------- package

\* PathBuf::to_string_lossy of a path held by its components
RECURSIVE JoinComps(_)
JoinComps(comps) ==
  IF comps = <<>> THEN <<>>
  ELSE IF Len(comps) = 1 THEN Head(comps)
  ELSE Head(comps) \o <<Sep>> \o JoinComps(Tail(comps))

PathToString(path) ==
  (IF path.absolute THEN <<Sep>> ELSE <<>>) \o JoinComps(path.comps)

\* Path::file_name: the last component when it is a normal one
file_name(path) ==
  IF path.comps = <<>> \/ path.comps[Len(path.comps)] \in {CurDir, ParentDir}
  THEN None
  ELSE Some(path.comps[Len(path.comps)])

\* zip::read::ZipFile::enclosed_name (plugin_service.rs:264, 304): the name
\* as a path, unless it has a root or its parent-dir components climb above
\* the archive root
RECURSIVE Climbs(_, _)
Climbs(depth, comps) ==
  IF comps = <<>> THEN FALSE
  ELSE IF Head(comps) = ParentDir
    THEN depth = 0 \/ Climbs(depth - 1, Tail(comps))
  ELSE IF Head(comps) = CurDir THEN Climbs(depth, Tail(comps))
  ELSE Climbs(depth + 1, Tail(comps))

\* faulty variant of enclosed_name: every name is let through
enclosed_name_unchecked(name) == Some(PathOf(name))

enclosed_name(name) ==
  IF IsAbsolute(name) \/ Climbs(0, Components(name)) THEN None
  ELSE Some(PathOf(name))

\* str::ends_with('/')
EndsWithSep(name) == name # <<>> /\ name[Len(name)] = Sep

\* plugin_service.rs:259-284  one turn of extract_zip's loop: the result and
\* the disk after it
ExtractMember(d, member, target_dir) ==
  IF ~IsSome(enclosed_name(member.name))
    THEN [result |-> Err("Execution", "Invalid file path in archive"),
          disk |-> d]
  ELSE The({
    IF EndsWithSep(member.name)
      THEN IF create_dir_all_ok(d, out_path)
             THEN [result |-> Ok(<<>>), disk |-> create_dir_all(d, out_path)]
             ELSE [result |-> Err("Io", ""), disk |-> d]
    ELSE IF ~IsSome(PathParent(out_path))
      THEN [result |-> Err("Io", ""), disk |-> d]
    ELSE IF ~create_dir_all_ok(d, Unwrap(PathParent(out_path)))
      THEN [result |-> Err("Io", ""), disk |-> d]
    ELSE The({ IF ~create_file_ok(made, out_path)
                 THEN [result |-> Err("Io", ""), disk |-> made]
               ELSE [result |-> Ok(<<>>), disk |-> write_file(made, out_path)] :
                 made \in {create_dir_all(d, Unwrap(PathParent(out_path)))} }) :
      out_path \in {PathJoin(target_dir,
                             PathToString(Unwrap(enclosed_name(member.name))))} })

\* plugin_service.rs:253-287  extract_zip: the members in archive order,
\* stopping at the first error; what was written before it stays
RECURSIVE ExtractFrom(_, _, _, _)
ExtractFrom(d, members, i, target_dir) ==
  IF i > Len(members) THEN [result |-> Ok(<<>>), disk |-> d]
  ELSE The({ IF ~one.result.ok THEN one
             ELSE ExtractFrom(one.disk, members, i + 1, target_dir) :
               one \in {ExtractMember(d, members[i], target_dir)} })

extract_zip(d, bytes, target_dir) ==
  IF ~bytes.zip_ok
    THEN [result |-> Err("Execution", "Invalid zip archive"), disk |-> d]
  ELSE ExtractFrom(d, bytes.members, 1, target_dir)

MetadataJson == <<"metadata.json">>

\* faulty variant of read_metadata_from_zip: of several metadata.json files
\* the first is taken
read_metadata_from_zip_first_match(bytes) ==
  IF ~bytes.zip_ok THEN Err("Execution", "Invalid zip archive")
  ELSE
    LET members == bytes.members
        named == {i \in 1..Len(members) :
                    /\ IsSome(enclosed_name(members[i].name))
                    /\ file_name(Unwrap(enclosed_name(members[i].name)))
                         = Some(MetadataJson)}
    IN IF \E i \in 1..Len(members) : ~IsSome(enclosed_name(members[i].name))
         THEN Err("Execution", "Invalid file path in archive")
       ELSE IF named = {}
         THEN Err("Execution", "metadata.json not found in package")
       ELSE
         LET index == CHOOSE i \in named : \A j \in named : i <= j
             payload == members[index].content
             metadata_path == Unwrap(enclosed_name(members[index].name))
             parent == Unwrap(PathParent(metadata_path))
             metadata_dir == IF parent.comps = <<>> THEN None ELSE Some(parent)
         IN IF payload.json = "invalid"
              THEN Err("Execution", "Invalid metadata JSON")
            ELSE IF payload.json = "multi" /\ Len(payload.install_plugins) # 1
              THEN Err("Execution",
                       "Package metadata must describe exactly one plugin")
            ELSE Ok(<<payload.install_plugins[1], metadata_dir>>)

\* plugin_service.rs:289-354  read_metadata_from_zip: <<spec, metadata_dir>>
read_metadata_from_zip(bytes) ==
  IF ~bytes.zip_ok THEN Err("Execution", "Invalid zip archive")
  ELSE
    LET members == bytes.members
        named == {i \in 1..Len(members) :
                    /\ IsSome(enclosed_name(members[i].name))
                    /\ file_name(Unwrap(enclosed_name(members[i].name)))
                         = Some(MetadataJson)}
    IN IF \E i \in 1..Len(members) : ~IsSome(enclosed_name(members[i].name))
            /\ Cardinality({j \in named : j < i}) < 2
         THEN Err("Execution", "Invalid file path in archive")
       ELSE IF Cardinality(named) > 1
         THEN Err("Execution", "Multiple metadata.json files found in package")
       ELSE IF named = {}
         THEN Err("Execution", "metadata.json not found in package")
       ELSE
         LET index == CHOOSE i \in named : TRUE
             payload == members[index].content
             metadata_path == Unwrap(enclosed_name(members[index].name))
             parent == Unwrap(PathParent(metadata_path))
             metadata_dir == IF parent.comps = <<>> THEN None ELSE Some(parent)
         IN IF payload.json = "invalid"
              THEN Err("Execution", "Invalid metadata JSON")
            ELSE IF payload.json = "multi" /\ Len(payload.install_plugins) # 1
              THEN Err("Execution",
                       "Package metadata must describe exactly one plugin")
            ELSE Ok(<<payload.install_plugins[1], metadata_dir>>)

\* plugin_service.rs:474-480  parse_plugin_type
parse_plugin_type(raw) ==
  IF raw = "python" THEN Ok("Python")
  ELSE IF raw \in {"javascript", "js"} THEN Ok("JavaScript")
  ELSE Err("InvalidPluginType", "")

HasParentDir(s) == \E i \in 1..Len(Components(s)) : Components(s)[i] = ParentDir

\* plugin_service.rs:482-498  validate_entry_point
validate_entry_point(entry_point) ==
  IF IsAbsolute(entry_point)
    THEN Err("Execution", "Entry point must be a relative path")
  ELSE IF HasParentDir(entry_point)
    THEN Err("Execution", "Entry point cannot contain '..'")
  ELSE Ok(<<>>)

\* plugin_service.rs:500-523  resolve_entry_point
resolve_entry_point(d, entry_point, root_dir, metadata_dir) ==
  LET valid == validate_entry_point(entry_point) IN
  IF ~valid.ok THEN valid
  ELSE IF is_file(d, PathJoin(root_dir, entry_point)) THEN Ok(entry_point)
  ELSE IF IsSome(metadata_dir)
    THEN LET candidate == PathJoin(Unwrap(metadata_dir), entry_point)
             candidate_str == PathToString(candidate)
             again == validate_entry_point(candidate_str)
         IN IF ~again.ok THEN again
            ELSE IF is_file(d, PathJoin(root_dir, candidate_str))
              THEN Ok(candidate_str)
            ELSE Err("Execution", "Entry point not found")
  ELSE Err("Execution", "Entry point not found")

Contains(s, ch) == \E i \in 1..Len(s) : s[i] = ch

\* faulty variant of validate_plugin_id: separators are let through
validate_plugin_id_with_separators(plugin_id) ==
  IF Components(plugin_id) = <<>>
     \/ Components(plugin_id)[1] \in {CurDir, ParentDir}
    THEN Err("Execution", "Plugin id must be a valid identifier")
  ELSE Ok(<<>>)

\* plugin_service.rs:575-602  validate_plugin_id
validate_plugin_id(plugin_id) ==
  IF Contains(plugin_id, Sep) \/ Contains(plugin_id, Backslash)
    THEN Err("Execution", "Plugin id cannot contain path separators")
  ELSE IF IsAbsolute(plugin_id)
    THEN Err("Execution", "Plugin id must be a relative identifier")
  ELSE IF Components(plugin_id) = <<>>
          \/ Components(plugin_id)[1] \in {CurDir, ParentDir}
    THEN Err("Execution", "Plugin id must be a valid identifier")
  ELSE IF Len(Components(plugin_id)) > 1
    THEN Err("Execution", "Plugin id must be a single path segment")
  ELSE Ok(<<>>)

\* plugin_service.rs:525-544  normalize_plugin_id
normalize_plugin_id(plugin_id, name) ==
  LET plugin_id_raw == IF IsSome(plugin_id) THEN Unwrap(plugin_id) ELSE name
      trimmed == Trim(plugin_id_raw)
  IN IF trimmed = <<>> THEN Err("Execution", "Plugin id cannot be empty")
     ELSE IF trimmed # plugin_id_raw
       THEN Err("Execution", "Plugin id has leading/trailing whitespace")
     ELSE IF ~validate_plugin_id(trimmed).ok THEN validate_plugin_id(trimmed)
     ELSE Ok(trimmed)

\* faulty variant of ensure_newer_version: an equal version passes
ensure_newer_version_or_equal(candidate, current) ==
  IF candidate.kind # "semver" \/ current.kind # "semver"
    THEN Err("Execution", "Invalid plugin version")
  ELSE IF VersionLess(candidate.version, current.version)
    THEN Err("Execution", "Plugin version is not newer than installed version")
  ELSE Ok(<<>>)

\* plugin_service.rs:546-573  ensure_newer_version.  A version text is held
\* by what trim and Version::parse make of it: kind "blank", "invalid" or
\* "semver" with its version.
ensure_newer_version(candidate, current) ==
  IF candidate.kind = "blank"
    THEN Err("Execution", "Plugin version cannot be empty")
  ELSE IF candidate.kind = "invalid"
    THEN Err("Execution", "Invalid plugin version")
  ELSE IF current.kind # "semver"
    THEN Err("Execution", "Invalid installed plugin version")
  ELSE IF ~VersionLess(current.version, candidate.version)
    THEN Err("Execution", "Plugin version is not newer than installed version")
  ELSE Ok(<<>>)

\* paths.rs: plugins_dir and python_envs_dir under the install root
plugins_dir == PathJoin(InstallRoot, <<"plugins">>)
python_envs_dir == PathJoin(InstallRoot, <<"data", Sep, "python_envs">>)

\* plugin_service.rs:248-251
plugin_dir_for(plugin_id) == PathJoin(plugins_dir, plugin_id)

\* plugin_service.rs:604-607
python_env_dir_for(plugin_id) == PathJoin(python_envs_dir, plugin_id)

\* plugin_service.rs:720-726 (not Windows)
python_executable_path(venv_dir) ==
  PathJoin(PathJoin(venv_dir, <<"bin">>), <<"python">>)

\* ------------------------------------------------------------ state

VARIABLES
  plugins,     \* plugins table: plugin_id -> row
  disk,        \* files and directories under <install_root>/plugins and
               \* <install_root>/data/python_envs
  responses,   \* history: the responses of the plugin service, by call
  executions,  \* executions table: id -> row
  workdirs,    \* directories that exist under <install_root>/work_dir
  now,         \* wall clock at its last read, epoch ms
  ticks,       \* number of reads so far that saw the clock advanced
  started,     \* number of API calls issued so far
  calls,       \* the API calls in flight: request, position, locals
  returned,    \* the response sent by the last step, if it sent one
  tasks,       \* running background supervisors (tokio::spawn), by spawning call
  order,       \* history: per execution id, which writes of its current
               \* phase have been applied (update_pid, the terminal write)
  issued       \* history: confirm tokens issued [token, id, at]

vars == <<plugins, disk, responses, executions, workdirs, now, ticks, started, calls,
          returned, tasks, order, issued>>

Calls == 1..MaxCalls

\* The database and the work directories outlive the process: the node
\* starts either on an empty executions table, or on one left by an earlier
\* session (call 0) whose prepare of plugin "p" has just succeeded: its row is
\* PreviewReady, its work directory retained, its token issued at time 0.
EarlierId == UuidV4("execution", 0)
EarlierToken == UuidV4("token", 0)
EarlierTable ==
  mark_preview_ready(
    update_pid(create_with_phase(<<>>, EarlierId, "p", "Prepare", 0),
               EarlierId, 1000),
    EarlierId, Some("PLAN"), None, Some(0), EarlierToken, 0 + PREVIEW_TTL_MS, 0)

InitEmpty ==
  /\ executions = <<>>
  /\ workdirs = {}
  /\ order = <<>>
  /\ issued = {}

InitEarlier ==
  /\ executions = EarlierTable
  /\ workdirs = {work_dir_for(EarlierId)}
  /\ order = (EarlierId :> [phase |-> "Prepare", running |-> TRUE, terminal |-> TRUE])
  /\ issued = {[token |-> EarlierToken, id |-> EarlierId, at |-> 0]}

Init ==
  /\ \E row \in InitPlugins : plugins = (row.plugin_id :> row)
  /\ disk = NoDisk
  /\ responses = <<>>
  /\ InitEmpty \/ InitEarlier
  /\ now = 0
  /\ ticks = 0
  /\ started = 0
  /\ calls = <<>>
  /\ returned = None
  /\ tasks = <<>>

\* history bookkeeping: the statement `op` left the table as `table`; a row
\* that enters a phase starts with neither write applied
Logged(table, id, op) ==
  IF id \notin DOMAIN table THEN order
  ELSE LET fresh == [phase |-> table[id].phase, running |-> FALSE, terminal |-> FALSE]
           old == IF id \in DOMAIN order /\ order[id].phase = table[id].phase
                  THEN order[id] ELSE fresh
           new == CASE op = "update_pid" -> [old EXCEPT !.running = TRUE]
                    [] op = "terminal"   -> [old EXCEPT !.terminal = TRUE]
                    [] OTHER             -> old
       IN [e \in DOMAIN order \cup {id} |-> IF e = id THEN new ELSE order[e]]

\* Utc::now().timestamp_millis(): what a read of the clock may return when
\* the last read returned t: t again, or t advanced by one of `steps`.  The
\* clock does not run backwards.  Advances are followed where they decide
\* something: at the expiry check of apply (execution_service.rs:116) and
\* between the supervisor's two reads (execution_service.rs:302,
\* execution_repository.rs:145); the other reads return the clock as last
\* read.
ClockReads(t, steps) ==
  {t} \cup (IF ticks < MaxTicks THEN {t + d : d \in steps} ELSE {})

Advanced(t_before, t_after) == IF t_after > t_before THEN 1 ELSE 0

Without(f, x) == [y \in DOMAIN f \ {x} |-> f[y]]

\* a new API call: its request and its position in the handler
NewCall(op, plugin_id, id, confirm_token, params) ==
  [ op |-> op, pc |-> "entered", plugin_id |-> plugin_id, id |-> id,
    confirm_token |-> confirm_token, params |-> params,
    plugin |-> None, execution |-> None, env |-> None ]

\* the response to call c: its request, the execution it worked on, its result
Response(c, call, result) ==
  Some([ c |-> c, op |-> call.op, plugin_id |-> call.plugin_id, id |-> call.id,
         confirm_token |-> call.confirm_token, params |-> call.params,
         execution_id |-> IF IsSome(call.execution)
                          THEN Some(Unwrap(call.execution).id) ELSE None,
         result |-> result ])

\* call c (new, or in flight) moves on as `call`, or returns `result`
Continue(c, call) ==
  /\ calls' = IF c \in DOMAIN calls THEN [calls EXCEPT ![c] = call]
              ELSE calls @@ (c :> call)
  /\ returned' = None

Return(c, call, result) ==
  /\ calls' = Without(calls, c)
  /\ returned' = Response(c, call, result)

\* ------------------------------------------------------------ orchestrator

\* faulty variant of load_plugin_and_env: the stored plan is not passed on
load_plugin_and_env_without_plan(plugin_id, params, atom_phase, preview_payload) ==
  LET got == plugin_get(plugins, plugin_id) IN
  IF ~got.ok THEN got
  ELSE LET plugin == got.value IN
    IF ~plugin.enabled THEN Err("PluginDisabled", "")
    ELSE LET version == EnsureMinAtomNodeVersion(plugin.min_atom_node_version) IN
      IF ~version.ok THEN version
      ELSE The({
        IF ~resolved.ok THEN resolved
        ELSE Ok([ plugin |-> plugin,
                  env |-> [ ATOM_PLUGIN_PARAMS |->
                              IF DOMAIN resolved.value # {}
                              THEN Some(resolved.value) ELSE None,
                            ATOM_PHASE |-> atom_phase,
                            ATOM_PREVIEW_PLAN |-> None ] ]) :
          resolved \in {ResolveParameters(plugin.parameters, params)} })

\* execution_service.rs:123-140 (apply), and the same code at 38-52
\* (execute) and 69-83 (prepare) without the plan: load the plugin, reject a
\* disabled one, enforce the minimum host version, resolve the parameters and
\* build the child's environment
load_plugin_and_env(plugin_id, params, atom_phase, preview_payload) ==
  LET got == plugin_get(plugins, plugin_id) IN
  IF ~got.ok THEN got
  ELSE LET plugin == got.value IN
    IF ~plugin.enabled THEN Err("PluginDisabled", "")
    ELSE LET version == EnsureMinAtomNodeVersion(plugin.min_atom_node_version) IN
      IF ~version.ok THEN version
      ELSE The({
        IF ~resolved.ok THEN resolved
        ELSE Ok([ plugin |-> plugin,
                  env |-> [ ATOM_PLUGIN_PARAMS |->
                              IF DOMAIN resolved.value # {}
                              THEN Some(resolved.value) ELSE None,
                            ATOM_PHASE |-> atom_phase,
                            ATOM_PREVIEW_PLAN |-> preview_payload ] ]) :
          resolved \in {ResolveParameters(plugin.parameters, params)} })

\* execution_service.rs:32-52 / 64-83  execute_plugin and prepare_plugin up to
\* start_process: plugin_repo.get and the checks on its result
EnterPlugin(op, plugin_id, params) ==
  /\ started < MaxCalls
  /\ started' = started + 1
  /\ \E gate \in {load_plugin_and_env(plugin_id, params,
                      IF op = "execute" THEN "apply" ELSE "prepare", None)} :
       LET c == started + 1
           call == NewCall(op, plugin_id, UnknownId, WrongToken, params)
       IN IF gate.ok
          THEN Continue(c, [call EXCEPT !.pc = "start_process",
                                        !.plugin = Some(gate.value.plugin),
                                        !.env = Some(gate.value.env)])
          ELSE Return(c, call, gate)
  /\ UNCHANGED <<plugins, disk, responses, executions, workdirs, now, ticks, tasks,
                 order, issued>>

\* execution_service.rs:32-62
execute_plugin ==
  \E input \in PluginInputs : EnterPlugin("execute", input[1], input[2])

\* execution_service.rs:64-93
prepare_plugin ==
  \E input \in PluginInputs : EnterPlugin("prepare", input[1], input[2])

\* the arguments execute_plugin / prepare_plugin / apply_execution pass to
\* start_process / spawn_process
\* faulty variant of PhaseOf: execute creates its row in phase Prepare too
PhaseOf_always_prepare(op) == "Prepare"
PhaseOf(op) == IF op = "prepare" THEN "Prepare" ELSE "Apply"
\* faulty variant of SuccessStatusOf: prepare passes Completed as well
SuccessStatusOf_always_completed(op) == "Completed"
SuccessStatusOf(op) == IF op = "prepare" THEN "PreviewReady" ELSE "Completed"
CleanupOnSuccessOf(op) == op # "prepare"

\* execution_service.rs:236-258  spawn_process up to update_pid: create the
\* work directory, run the executor, on its error remove the directory and
\* return the error
SpawnChild(c, call, execution, entry_is_file, venv_python_is_file, spawn_ok) ==
  LET work_dir == work_dir_for(execution.id)
      exec_result == executor_execute(Unwrap(call.plugin), entry_is_file,
                                      venv_python_is_file, spawn_ok)
      spawning == [call EXCEPT !.execution = Some(execution)]
  IN IF exec_result.ok
     THEN /\ Continue(c, [spawning EXCEPT !.pc = "update_pid"])
          /\ workdirs' = workdirs \cup {work_dir}
     ELSE /\ Return(c, spawning, exec_result)
          /\ workdirs' = workdirs \ {work_dir}

\* execution_service.rs:205-226  start_process: create_with_phase, then
\* spawn_process up to its update_pid statement; the insert of a row whose
\* plugin is gone is refused by the store
start_process(c) ==
  /\ c \in DOMAIN calls
  /\ calls[c].pc = "start_process"
  /\ IF ~references_plugin(plugins, calls[c].plugin_id)
     THEN /\ Return(c, calls[c], Err("Database", "FOREIGN KEY constraint failed"))
          /\ UNCHANGED <<executions, order, workdirs>>
     ELSE \E entry_is_file, venv_python_is_file, spawn_ok \in BOOLEAN :
       LET id == UuidV4("execution", c)
           table == create_with_phase(executions, id, calls[c].plugin_id,
                                      PhaseOf(calls[c].op), now)
       IN /\ executions' = table
          /\ order' = Logged(table, id, "create")
          /\ SpawnChild(c, calls[c], table[id], entry_is_file,
                        venv_python_is_file, spawn_ok)
  /\ UNCHANGED <<plugins, disk, responses, now, ticks, started, tasks, issued>>

\* the pid the operating system gives the child of call c
PidOf(c) == 1000 + c

\* execution_service.rs:260-267, 360  update_pid, tokio::spawn of the
\* supervisor, return Ok
spawn_process_update_pid(c) ==
  /\ c \in DOMAIN calls
  /\ calls[c].pc = "update_pid"
  /\ LET execution == Unwrap(calls[c].execution)
         success_status == SuccessStatusOf(calls[c].op)
         cleanup_on_success == CleanupOnSuccessOf(calls[c].op)
         table == update_pid(executions, execution.id, PidOf(c))
     IN /\ executions' = table
        /\ order' = Logged(table, execution.id, "update_pid")
        /\ tasks' = tasks @@
             (c :> [ op |-> calls[c].op,
                     exec_id |-> execution.id,
                     work_dir |-> work_dir_for(execution.id),
                     success_status |-> success_status,
                     cleanup_on_success |-> cleanup_on_success,
                     keep_on_success |-> ~cleanup_on_success
                                         /\ success_status = "PreviewReady",
                     env |-> Unwrap(calls[c].env) ])
        /\ Return(c, calls[c], Ok(execution))
  /\ UNCHANGED <<plugins, disk, responses, workdirs, now, ticks, started, issued>>

\* faulty variant of apply_precheck: the token comparison of lines 109-113
\* is left out
apply_precheck_without_token(got, confirm_token, t) ==
  IF ~got.ok THEN got
  ELSE LET execution == got.value IN
    IF execution.phase # "Prepare"
      THEN Err("Execution", "Only preview executions can be applied")
    ELSE IF execution.status # "PreviewReady"
      THEN Err("Execution", "Execution is not ready to apply")
    ELSE IF IsSome(execution.expires_at) /\ t > Unwrap(execution.expires_at)
      THEN Err("Execution", "Preview has expired, please run prepare again")
    ELSE Ok(execution)

\* faulty variant of apply_precheck: the preview counts as expired already
\* at expires_at itself
apply_precheck_expiry_inclusive(got, confirm_token, t) ==
  IF ~got.ok THEN got
  ELSE LET execution == got.value IN
    IF execution.phase # "Prepare"
      THEN Err("Execution", "Only preview executions can be applied")
    ELSE IF execution.status # "PreviewReady"
      THEN Err("Execution", "Execution is not ready to apply")
    ELSE IF execution.confirm_token # Some(confirm_token)
      THEN Err("Execution", "Invalid confirm token")
    ELSE IF IsSome(execution.expires_at) /\ t >= Unwrap(execution.expires_at)
      THEN Err("Execution", "Preview has expired, please run prepare again")
    ELSE Ok(execution)

\* execution_service.rs:101-121  apply_execution's checks on the row it
\* read; t is what the clock returns when line 116 reads it
apply_precheck(got, confirm_token, t) ==
  IF ~got.ok THEN got
  ELSE LET execution == got.value IN
    IF execution.phase # "Prepare"
      THEN Err("Execution", "Only preview executions can be applied")
    ELSE IF execution.status # "PreviewReady"
      THEN Err("Execution", "Execution is not ready to apply")
    ELSE IF execution.confirm_token # Some(confirm_token)
      THEN Err("Execution", "Invalid confirm token")
    ELSE IF IsSome(execution.expires_at) /\ t > Unwrap(execution.expires_at)
      THEN Err("Execution", "Preview has expired, please run prepare again")
    ELSE Ok(execution)

\* whether apply_precheck gets as far as reading the clock
ReadsClock(got, confirm_token) ==
  /\ got.ok
  /\ got.value.phase = "Prepare"
  /\ got.value.status = "PreviewReady"
  /\ got.value.confirm_token = Some(confirm_token)
  /\ IsSome(got.value.expires_at)

\* ids and tokens a caller may send to apply / stop
IdInputs == DOMAIN executions \cup {UnknownId}
TokenInputs == {r.token : r \in issued} \cup {WrongToken}

\* execution_service.rs:95-121  apply_execution: exec_repo.get and the
\* precondition checks
apply_execution ==
  /\ started < MaxCalls
  /\ started' = started + 1
  /\ \E id \in IdInputs, confirm_token \in TokenInputs, params \in ParamInputs,
        t \in ClockReads(now, TickSteps) :
       LET c == started + 1
           got == exec_get(executions, id)
           checked == apply_precheck(got, confirm_token, t)
           call == NewCall("apply", "", id, confirm_token, params)
       IN /\ ~ReadsClock(got, confirm_token) => t = now
          /\ now' = t
          /\ ticks' = ticks + Advanced(now, t)
          /\ IF checked.ok
             THEN Continue(c, [call EXCEPT !.pc = "load_plugin",
                                           !.execution = Some(checked.value)])
             ELSE Return(c, call, checked)
  /\ UNCHANGED <<plugins, disk, responses, executions, workdirs, tasks, order,
                 issued>>

\* faulty variant of apply_load_plugin: the begin-apply write is made before
\* the plugin is looked at
apply_load_plugin_after_begin(c) ==
  /\ c \in DOMAIN calls
  /\ calls[c].pc = "load_plugin"
  /\ executions' = begin_apply(executions, calls[c].id, now)
  /\ \E gate \in {load_plugin_and_env(Unwrap(calls[c].execution).plugin_id,
                                       calls[c].params, "apply",
                                       Unwrap(calls[c].execution).preview_payload)} :
       IF gate.ok
       THEN Continue(c, [calls[c] EXCEPT !.pc = "begin_apply",
                                         !.plugin = Some(gate.value.plugin),
                                         !.env = Some(gate.value.env)])
       ELSE Return(c, calls[c], gate)
  /\ UNCHANGED <<plugins, disk, responses, workdirs, now, ticks, started,
                 tasks, order, issued>>

\* execution_service.rs:123-140  apply_execution: plugin_repo.get, the plugin
\* checks, the child's environment with the stored plan
apply_load_plugin(c) ==
  /\ c \in DOMAIN calls
  /\ calls[c].pc = "load_plugin"
  /\ \E gate \in {load_plugin_and_env(Unwrap(calls[c].execution).plugin_id,
                                       calls[c].params, "apply",
                                       Unwrap(calls[c].execution).preview_payload)} :
       IF gate.ok
       THEN Continue(c, [calls[c] EXCEPT !.pc = "begin_apply",
                                         !.plugin = Some(gate.value.plugin),
                                         !.env = Some(gate.value.env)])
       ELSE Return(c, calls[c], gate)
  /\ UNCHANGED <<plugins, disk, responses, executions, workdirs, now, ticks, started,
                 tasks, order, issued>>

\* execution_service.rs:142  apply_execution: exec_repo.begin_apply
apply_begin_apply(c) ==
  /\ c \in DOMAIN calls
  /\ calls[c].pc = "begin_apply"
  /\ LET table == begin_apply(executions, calls[c].id, now)
     IN /\ executions' = table
        /\ order' = Logged(table, calls[c].id, "begin_apply")
  /\ Continue(c, [calls[c] EXCEPT !.pc = "apply_spawn"])
  /\ UNCHANGED <<plugins, disk, responses, workdirs, now, ticks, started, tasks,
                 issued>>

\* execution_service.rs:144-153  apply_execution: read the row back and
\* spawn_process up to its update_pid statement
apply_spawn(c) ==
  /\ c \in DOMAIN calls
  /\ calls[c].pc = "apply_spawn"
  /\ LET got == exec_get(executions, calls[c].id)
     IN IF ~got.ok
        THEN /\ Return(c, calls[c], got)
             /\ UNCHANGED workdirs
        ELSE \E entry_is_file, venv_python_is_file, spawn_ok \in BOOLEAN :
               SpawnChild(c, calls[c], got.value, entry_is_file,
                          venv_python_is_file, spawn_ok)
  /\ UNCHANGED <<plugins, disk, responses, executions, now, ticks, started, tasks,
                 order, issued>>

\* execution_service.rs:189-196  stop_execution: exec_repo.get
stop_execution ==
  /\ started < MaxCalls
  /\ started' = started + 1
  /\ \E id \in IdInputs :
       LET c == started + 1
           got == exec_get(executions, id)
           call == NewCall("stop", "", id, WrongToken, <<>>)
       IN IF got.ok
          THEN Continue(c, [call EXCEPT !.pc = "update_status",
                                        !.execution = Some(got.value)])
          ELSE Return(c, call, got)
  /\ UNCHANGED <<plugins, disk, responses, executions, workdirs, now, ticks, tasks,
                 order, issued>>

\* execution_service.rs:198-202  stop_execution: update_status(Stopped)
stop_update_status(c) ==
  /\ c \in DOMAIN calls
  /\ calls[c].pc = "update_status"
  /\ LET table == update_status(executions, calls[c].id, "Stopped")
     IN /\ executions' = table
        /\ order' = Logged(table, calls[c].id, "update_status")
  /\ Return(c, calls[c], Ok(<<>>))
  /\ UNCHANGED <<plugins, disk, responses, workdirs, now, ticks, started, tasks,
                 issued>>

\* ------------------------------------------------------------ supervisor

\* execution_service.rs:288-298  an empty capture is stored as NULL
Captured(buf) == IF buf # "" THEN Some(buf) ELSE None

\* faulty variant of supervise: a failed wait is written as a success
supervise_wait_error_as_success(task, outcome, table, confirm_token, t_token, t_write) ==
  IF outcome.wait_ok THEN
    LET exit_code == outcome.exit_code
        stdout == Captured(outcome.stdout)
        stderr == Captured(outcome.stderr)
    IN IF exit_code = Some(0) /\ task.success_status = "PreviewReady"
       THEN [ table |-> mark_preview_ready(table, task.exec_id, stdout, stderr,
                          exit_code, confirm_token, t_token + PREVIEW_TTL_MS, t_write),
              preview |-> TRUE,
              remove |-> ~task.keep_on_success ]
       ELSE [ table |-> update_result(table, task.exec_id, stdout, stderr, exit_code,
                          IF exit_code = Some(0) THEN task.success_status ELSE "Failed",
                          t_write),
              preview |-> FALSE,
              remove |-> exit_code # Some(0) \/ task.cleanup_on_success ]
  ELSE [ table |-> update_result(table, task.exec_id, None, Some("Error: wait"), None,
                                 "Completed", t_write),
         preview |-> FALSE,
         remove |-> TRUE ]

\* execution_service.rs:271-357  the supervisor's handling of the child's
\* exit: the terminal write and whether the work directory is removed.
\* t_token is the clock read at line 302, t_write the clock read by the
\* repository statement.
supervise(task, outcome, table, confirm_token, t_token, t_write) ==
  IF outcome.wait_ok THEN
    LET exit_code == outcome.exit_code
        stdout == Captured(outcome.stdout)
        stderr == Captured(outcome.stderr)
    IN IF exit_code = Some(0) /\ task.success_status = "PreviewReady"
       THEN [ table |-> mark_preview_ready(table, task.exec_id, stdout, stderr,
                          exit_code, confirm_token, t_token + PREVIEW_TTL_MS, t_write),
              preview |-> TRUE,
              remove |-> ~task.keep_on_success ]
       ELSE [ table |-> update_result(table, task.exec_id, stdout, stderr, exit_code,
                          IF exit_code = Some(0) THEN task.success_status ELSE "Failed",
                          t_write),
              preview |-> FALSE,
              remove |-> exit_code # Some(0) \/ task.cleanup_on_success ]
  ELSE [ table |-> update_result(table, task.exec_id, None, Some("Error: wait"), None,
                                 "Failed", t_write),
         preview |-> FALSE,
         remove |-> TRUE ]

\* execution_service.rs:267-358  the background task: the child of call c
\* ends, the supervisor writes the terminal state and cleans up.  The
\* PreviewReady branch reads the clock twice (execution_service.rs:302 and
\* execution_repository.rs:145), the other branches once
\* (execution_repository.rs:117).
supervisor_exit(c) ==
  /\ c \in DOMAIN tasks
  /\ \E outcome \in ChildOutcomes, t_write \in ClockReads(now, SkewSteps) :
       LET task == tasks[c]
           t_token == now
           confirm_token == UuidV4("token", c)
           done == supervise(task, outcome, executions, confirm_token, t_token, t_write)
       IN /\ ~done.preview => t_write = now
          /\ now' = t_write
          /\ ticks' = ticks + Advanced(now, t_write)
          /\ executions' = done.table
          /\ order' = Logged(done.table, task.exec_id, "terminal")
          /\ issued' = IF done.preview
                       THEN issued \cup {[token |-> confirm_token, id |-> task.exec_id,
                                          at |-> t_token]}
                       ELSE issued
          /\ workdirs' = IF done.remove THEN workdirs \ {task.work_dir} ELSE workdirs
          /\ tasks' = Without(tasks, c)
  /\ returned' = None
  /\ UNCHANGED <<plugins, disk, responses, started, calls>>

Next ==
  \/ execute_plugin
  \/ prepare_plugin
  \/ apply_execution
  \/ stop_execution
  \/ \E c \in Calls : start_process(c)
  \/ \E c \in Calls : apply_load_plugin(c)
  \/ \E c \in Calls : apply_begin_apply(c)
  \/ \E c \in Calls : apply_spawn(c)
  \/ \E c \in Calls : spawn_process_update_pid(c)
  \/ \E c \in Calls : stop_update_status(c)
  \/ \E c \in Calls : supervisor_exit(c)

Spec == Init /\ [][Next]_vars

\* a handler in flight makes its next step, or a child ends and its
\* supervisor (tokio::spawn, execution_service.rs:267) runs
Proceeds ==
  \E c \in Calls :
    \/ start_process(c)
    \/ apply_load_plugin(c)
    \/ apply_begin_apply(c)
    \/ apply_spawn(c)
    \/ spawn_process_update_pid(c)
    \/ stop_update_status(c)
    \/ supervisor_exit(c)

\* The runtime keeps running the handlers and supervisors that can make a
\* step, and every spawned child ends.  Nothing obliges a client to send a
\* request.
LiveSpec == Spec /\ WF_vars(Proceeds)

\* -------------------------------------------------------- plugin store

\* The statements of PluginRepository are keyed by the plugin_id their
\* callers pass (plugin_service.rs:62, 110, 152), the column connection.rs:23
\* declares UNIQUE.

\* plugin_repository.rs:68-95  INSERT INTO plugins; connection.rs:23
\* plugin_id TEXT NOT NULL UNIQUE
plugin_create(table, plugin) ==
  IF plugin.plugin_id \in DOMAIN table
    THEN [result |-> Err("Database", "UNIQUE constraint failed"),
          table |-> table]
  ELSE [result |-> Ok(<<>>), table |-> table @@ (plugin.plugin_id :> plugin)]

\* plugin_repository.rs:126-137  DELETE; no row affected is PluginNotFound
plugin_delete(table, id) ==
  IF id \notin DOMAIN table
    THEN [result |-> Err("PluginNotFound", ""), table |-> table]
  ELSE [result |-> Ok(<<>>), table |-> Without(table, id)]

\* faulty variant of update_enabled: the flag is written negated
update_enabled_negated(table, id, enabled, t) ==
  UpdateWhereId(table, id, [enabled |-> ~enabled, updated_at |-> t])

\* plugin_repository.rs:139-148  UPDATE plugins SET enabled = ?,
\* updated_at = ? WHERE id = ?; t is the clock read of the statement
update_enabled(table, id, enabled, t) ==
  UpdateWhereId(table, id, [enabled |-> enabled, updated_at |-> t])

\* ------------------------------------------------------- plugin service

\* plugin_service.rs:761-805  validate_parameters
validate_parameters(parameters) ==
  IF ~IsSome(parameters) THEN Ok(None)
  ELSE LET schema == Unwrap(parameters) IN
       IF ~SchemaNamesOk(schema)
         THEN Err("Execution", "Invalid parameter name")
       ELSE IF \E i \in 1..Len(schema) :
                 /\ IsSome(schema[i].default)
                 /\ ~Matches(schema[i].param_type, Unwrap(schema[i].default))
         THEN Err("Execution", "Default value does not match type")
       ELSE Ok(Some(to_string(schema)))

\* plugin_service.rs:646-659  find_dependency_in_dirs
find_dependency_in_dirs(d, plugin_dir, search_dirs, filename) ==
  LET hits == {i \in 1..Len(search_dirs) :
                 is_file(d, PathJoin(plugin_dir,
                            PathToString(PathJoin(search_dirs[i], filename))))}
  IN IF hits = {} THEN None
     ELSE LET first == CHOOSE i \in hits : \A j \in hits : i <= j
          IN Some(PathToString(PathJoin(search_dirs[first], filename)))

EmptyPath == [absolute |-> FALSE, comps |-> <<>>]

\* plugin_service.rs:609-638  resolve_python_dependencies
resolve_python_dependencies(d, plugin_dir, metadata_dir, entry_point) ==
  LET first == IF IsSome(metadata_dir) THEN <<Unwrap(metadata_dir)>> ELSE <<>>
      entry_dir == PathParent(PathOf(entry_point))
      second == IF IsSome(entry_dir) /\ Unwrap(entry_dir).comps # <<>>
                   /\ (first = <<>> \/ first[1] # Unwrap(entry_dir))
                THEN Append(first, Unwrap(entry_dir)) ELSE first
      search_dirs == IF \E i \in 1..Len(second) : second[i] = EmptyPath
                     THEN second ELSE Append(second, EmptyPath)
      pyproject == find_dependency_in_dirs(d, plugin_dir, search_dirs,
                                           <<"pyproject.toml">>)
      requirements == find_dependency_in_dirs(d, plugin_dir, search_dirs,
                                              <<"requirements.txt">>)
  IN IF IsSome(pyproject)
       THEN Some([kind |-> "Pyproject", path |-> Unwrap(pyproject)])
     ELSE IF IsSome(requirements)
       THEN Some([kind |-> "Requirements", path |-> Unwrap(requirements)])
     ELSE None

\* what the uv tool does for one install: `uv venv` fails, or leaves a venv
\* without the interpreter, or `uv pip install` fails, or all succeeds
UvOutcomes == {"venv_failed", "no_python", "pip_failed", "ok"}

\* plugin_service.rs:670-718  prepare_python_env
prepare_python_env(d, venv_dir, dependencies, uv) ==
  The({
    IF uv = "venv_failed"
      THEN [result |-> Err("Execution", "uv command failed"), disk |-> d1]
    ELSE The({
      IF uv = "no_python"
        THEN IF is_file(d2, python_executable_path(venv_dir))
               THEN [result |-> Ok(<<>>), disk |-> d2]
               ELSE [result |-> Err("Execution",
                                    "Python executable not found in venv"),
                     disk |-> d2]
      ELSE The({
        IF ~IsSome(dependencies) THEN [result |-> Ok(<<>>), disk |-> d3]
        ELSE IF uv = "pip_failed"
          THEN [result |-> Err("Execution", "uv command failed"), disk |-> d3]
        ELSE [result |-> Ok(<<>>), disk |-> d3] :
          d3 \in {write_file(create_dir_all(d2, PathJoin(venv_dir, <<"bin">>)),
                             python_executable_path(venv_dir))} }) :
        d2 \in {create_dir_all(d1, venv_dir)} }) :
      d1 \in {create_dir_all(d, Unwrap(PathParent(venv_dir)))} })

\* tempfile::Builder::tempdir (plugin_service.rs:64-69): a fresh directory
\* of the call's own, removed when the call ends
TempDir == [absolute |-> TRUE, comps |-> << <<"tmp">>, <<"plugin_update_">> >>]

\* plugin_service.rs:356-425  read_metadata_from_dir.  A file holds what
\* the last archive member written to it held.
read_metadata_from_dir(d, root, bytes) ==
  LET matches == {f \in d.files :
                    IsPrefix(Resolve(root), f) /\ f[Len(f)] = MetadataJson}
  IN IF matches = {} THEN Err("Execution", "metadata.json not found in package")
     ELSE IF Cardinality(matches) > 1
       THEN Err("Execution", "Multiple metadata.json files found in package")
     ELSE
       LET metadata_path == CHOOSE f \in matches : TRUE
           writers == {i \in 1..Len(bytes.members) :
                         /\ IsSome(enclosed_name(bytes.members[i].name))
                         /\ Resolve(PathJoin(root, bytes.members[i].name))
                              = metadata_path}
           last == CHOOSE i \in writers : \A j \in writers : j <= i
           payload == bytes.members[last].content
           below == SubSeq(metadata_path, Len(Resolve(root)) + 1,
                           Len(metadata_path) - 1)
           metadata_dir == IF below = <<>> THEN None
                           ELSE Some([absolute |-> FALSE, comps |-> below])
       IN IF payload.json = "invalid"
            THEN Err("Execution", "Invalid metadata JSON")
          ELSE IF payload.json = "multi" /\ Len(payload.install_plugins) # 1
            THEN Err("Execution",
                     "Package metadata must describe exactly one plugin")
          ELSE Ok(<<payload.install_plugins[1], metadata_dir>>)

\* faulty variant of update_validate: the candidate's plugin id is not
\* compared with the update target
update_validate_any_id(id, existing, bytes) ==
  The({
    IF ~unpacked.result.ok THEN unpacked.result
    ELSE The({
      IF ~read.ok THEN read
      ELSE The({
        IF ~plugin_id.ok THEN plugin_id
        ELSE IF Trim(read.value[1].entry_point) = <<>>
          THEN Err("Execution", "Entry point cannot be empty")
        ELSE IF ~parse_plugin_type(read.value[1].plugin_type).ok
          THEN parse_plugin_type(read.value[1].plugin_type)
        ELSE IF ~validate_parameters(read.value[1].parameters).ok
          THEN validate_parameters(read.value[1].parameters)
        ELSE The({
          IF ~resolved.ok THEN resolved
          ELSE ensure_newer_version(read.value[1].version, existing.version) :
            resolved \in {resolve_entry_point(unpacked.disk,
                            read.value[1].entry_point, TempDir,
                            read.value[2])} }) :
          plugin_id \in {normalize_plugin_id(read.value[1].plugin_id,
                                             read.value[1].name)} }) :
        read \in {read_metadata_from_dir(unpacked.disk, TempDir, bytes)} }) :
      unpacked \in {extract_zip(create_dir_all(NoDisk, TempDir), bytes,
                                TempDir)} })

\* plugin_service.rs:63-104  update_plugin between repo.get and
\* uninstall_plugin: the candidate is unpacked into the temp dir and checked
\* against the update target and the installed row
update_validate(id, existing, bytes) ==
  The({
    IF ~unpacked.result.ok THEN unpacked.result
    ELSE The({
      IF ~read.ok THEN read
      ELSE The({
        IF ~plugin_id.ok THEN plugin_id
        ELSE IF plugin_id.value # id
          THEN Err("Execution", "Plugin id does not match update target")
        ELSE IF Trim(read.value[1].entry_point) = <<>>
          THEN Err("Execution", "Entry point cannot be empty")
        ELSE IF ~parse_plugin_type(read.value[1].plugin_type).ok
          THEN parse_plugin_type(read.value[1].plugin_type)
        ELSE IF ~validate_parameters(read.value[1].parameters).ok
          THEN validate_parameters(read.value[1].parameters)
        ELSE The({
          IF ~resolved.ok THEN resolved
          ELSE ensure_newer_version(read.value[1].version, existing.version) :
            resolved \in {resolve_entry_point(unpacked.disk,
                            read.value[1].entry_point, TempDir,
                            read.value[2])} }) :
          plugin_id \in {normalize_plugin_id(read.value[1].plugin_id,
                                             read.value[1].name)} }) :
        read \in {read_metadata_from_dir(unpacked.disk, TempDir, bytes)} }) :
      unpacked \in {extract_zip(create_dir_all(NoDisk, TempDir), bytes,
                                TempDir)} })

\* plugin_service.rs:139-165  install_plugin_from_bytes before anything is
\* written: the metadata, the plugin id, the uniqueness check, the entry
\* point text, the plugin type and the parameters
install_checks(table, bytes) ==
  The({
    IF ~read.ok THEN read
    ELSE The({
      IF ~plugin_id.ok THEN plugin_id
      ELSE IF plugin_get(table, plugin_id.value).ok
        THEN Err("PluginAlreadyExists", "")
      ELSE IF Trim(read.value[1].entry_point) = <<>>
        THEN Err("Execution", "Entry point cannot be empty")
      ELSE IF ~parse_plugin_type(read.value[1].plugin_type).ok
        THEN parse_plugin_type(read.value[1].plugin_type)
      ELSE IF ~validate_parameters(read.value[1].parameters).ok
        THEN validate_parameters(read.value[1].parameters)
      ELSE Ok([spec |-> read.value[1], metadata_dir |-> read.value[2],
               plugin_id |-> plugin_id.value,
               plugin_type |-> parse_plugin_type(read.value[1].plugin_type).value,
               parameters |->
                 validate_parameters(read.value[1].parameters).value]) :
        plugin_id \in {normalize_plugin_id(read.value[1].plugin_id,
                                           read.value[1].name)} }) :
      read \in {read_metadata_from_zip(bytes)} })

\* plugin_service.rs:167-208  install_plugin_from_bytes from create_dir_all
\* to the dependencies: the plugin directory is made and filled, the entry
\* point resolved; an error removes the plugin directory
install_unpack(d, bytes, checked) ==
  IF ~create_dir_all_ok(d, plugin_dir_for(checked.plugin_id))
    THEN [result |-> Err("Io", ""), disk |-> d]
  ELSE The({
    IF ~unpacked.result.ok
      THEN [result |-> unpacked.result,
            disk |-> remove_dir_all(unpacked.disk, plugin_dir)]
    ELSE The({
      IF ~entry_point.ok
        THEN [result |-> entry_point,
              disk |-> remove_dir_all(unpacked.disk, plugin_dir)]
      ELSE The({ [result |->
              Ok([plugin_id |-> checked.plugin_id,
                  name |-> checked.spec.name,
                  version |-> checked.spec.version,
                  plugin_type |-> checked.plugin_type,
                  plugin_path |-> PathToString(plugin_dir),
                  entry_point |-> entry_point.value,
                  enabled |-> TRUE,
                  parameters |-> checked.parameters,
                  python_venv_path |-> None,
                  python_dependencies |->
                    IF IsSome(resolved_deps)
                    THEN Some(serialize_python_dependencies(
                                Unwrap(resolved_deps)).value)
                    ELSE None]),
            disk |-> unpacked.disk] :
          resolved_deps \in {
            IF checked.plugin_type = "Python"
            THEN resolve_python_dependencies(unpacked.disk, plugin_dir,
                   checked.metadata_dir, entry_point.value)
            ELSE None } }) :
        entry_point \in {resolve_entry_point(unpacked.disk,
                           checked.spec.entry_point, plugin_dir,
                           checked.metadata_dir)} }) :
      plugin_dir \in {plugin_dir_for(checked.plugin_id)},
      unpacked \in {extract_zip(create_dir_all(d, plugin_dir_for(checked.plugin_id)),
                                bytes, plugin_dir_for(checked.plugin_id))} })

\* plugin_service.rs:209-216  the environment of a Python plugin: an error
\* removes the plugin directory and the environment directory.  The row
\* holds the dependencies exactly when resolve_python_dependencies found
\* them (198-207), and prepare_python_env asks no more of them.
install_python_env(d, plugin, uv) ==
  The({
    IF ~prepared.result.ok
      THEN [result |-> prepared.result,
            disk |-> remove_dir_all(
                       remove_dir_all(prepared.disk, PathOf(plugin.plugin_path)),
                       python_env_dir_for(plugin.plugin_id))]
    ELSE [result |->
            Ok([plugin EXCEPT !.python_venv_path =
                  Some(PathToString(python_env_dir_for(plugin.plugin_id)))]),
          disk |-> prepared.disk] :
      prepared \in {prepare_python_env(d, python_env_dir_for(plugin.plugin_id),
                                       plugin.python_dependencies, uv)} })

\* plugin_service.rs:218-234  the Plugin value is built with the clock read
\* of line 218 as created_at and updated_at
Stamped(plugin, t) == [created_at |-> t, updated_at |-> t] @@ plugin

\* plugin_service.rs:238-245  the row is inserted; an error removes the
\* plugin directory and the environment directory
install_insert(table, d, plugin) ==
  LET created == plugin_create(table, plugin)
      d1 == remove_dir_all(d, PathOf(plugin.plugin_path))
  IN IF ~created.result.ok
       THEN [result |-> created.result, table |-> table,
             disk |-> IF IsSome(plugin.python_venv_path)
                      THEN remove_dir_all(d1,
                             PathOf(Unwrap(plugin.python_venv_path)))
                      ELSE d1]
     ELSE [result |-> Ok(plugin), table |-> created.table, disk |-> d]

\* faulty variant of uninstall_plugin's removals: the environment stays
uninstall_remove_plugin_dir_only(d, plugin) ==
  remove_dir_all(d, PathOf(plugin.plugin_path))

\* plugin_service.rs:111-126  uninstall_plugin's removals; a directory that
\* is not there is not an error
uninstall_remove(d, plugin) ==
  LET d1 == IF plugin.plugin_path # <<>>
            THEN remove_dir_all(d, PathOf(plugin.plugin_path)) ELSE d
  IN IF IsSome(plugin.python_venv_path)
        /\ Unwrap(plugin.python_venv_path) # <<>>
       THEN remove_dir_all(d1, PathOf(Unwrap(plugin.python_venv_path)))
     ELSE d1

\* ---- the packages and ids a caller may send

MaxRequests == 2

Requests == 1..MaxRequests

Hello == <<"hello">>

V1 == [kind |-> "semver", version |-> <<1, 0, 0>>]
V2 == [kind |-> "semver", version |-> <<1, 1, 0>>]

Metadata(version, plugin_type, entry_point) ==
  [ plugin_id |-> Some(Hello), name |-> <<"Hello", Space, "plugin">>,
    version |-> version, plugin_type |-> plugin_type,
    entry_point |-> entry_point, parameters |-> Some(SchemaX) ]

File(name) == [name |-> name, content |-> [json |-> "invalid"]]

MetadataFile(name, spec) ==
  [name |-> name, content |-> [json |-> "single", install_plugins |-> <<spec>>]]

\* a Python plugin with its requirements, metadata at the archive root
PythonPackage(version) ==
  [ zip_ok |-> TRUE,
    members |-> << MetadataFile(MetadataJson,
                                Metadata(version, "python", <<"main.py">>)),
                   File(<<"main.py">>), File(<<"requirements.txt">>) >> ]

\* a JavaScript plugin packed in a subdirectory: the entry point is found
\* next to the metadata
JavaScriptPackage(version) ==
  [ zip_ok |-> TRUE,
    members |-> << File(<<"pkg", Sep>>),
                   MetadataFile(<<"pkg", Sep, "metadata.json">>,
                                Metadata(version, "js", <<"index.js">>)),
                   File(<<"pkg", Sep, "index.js">>) >> ]

\* the entry point names a file the archive does not hold
NoEntryPackage ==
  [ zip_ok |-> TRUE,
    members |-> << MetadataFile(MetadataJson,
                                Metadata(V1, "python", <<"missing.py">>)),
                   File(<<"main.py">>) >> ]

\* a member below a member that is a file: extraction fails half way
ClashPackage ==
  [ zip_ok |-> TRUE,
    members |-> << MetadataFile(MetadataJson,
                                Metadata(V1, "python", <<"main.py">>)),
                   File(<<"main.py">>),
                   File(<<"main.py", Sep, "part">>) >> ]

\* a package that holds main.py and names its entry point in some other way
EntryPackage(entry_point) ==
  [ zip_ok |-> TRUE,
    members |-> << MetadataFile(MetadataJson,
                                Metadata(V1, "python", entry_point)),
                   File(<<"pkg", Sep>>), File(<<"main.py">>) >> ]

\* entry points install has to refuse although main.py is in the package:
\* blank, a path through '..', the absolute path of the unpacked file
BadEntryPoints ==
  { <<Space>>,
    <<"pkg", Sep, Dot, Dot, Sep, "main.py">>,
    PathToString(PathJoin(plugin_dir_for(Hello), <<"main.py">>)) }

\* a package without metadata.json
NoMetadataPackage ==
  [ zip_ok |-> TRUE, members |-> << File(<<"main.py">>) >> ]

\* a package with two metadata.json files, each of them valid
TwoMetadataPackage ==
  [ zip_ok |-> TRUE,
    members |-> << MetadataFile(MetadataJson,
                                Metadata(V1, "python", <<"main.py">>)),
                   File(<<"main.py">>),
                   MetadataFile(<<"pkg", Sep, "metadata.json">>,
                                Metadata(V1, "python", <<"main.py">>)) >> ]

\* a package whose metadata.json is {"install_plugins": [...]} with n plugins
MultiPackage(n) ==
  [ zip_ok |-> TRUE,
    members |-> << [name |-> MetadataJson,
                    content |->
                      [json |-> "multi",
                       install_plugins |->
                         [i \in 1..n |-> Metadata(V1, "python", <<"main.py">>)]]],
                   File(<<"main.py">>) >> ]

\* the lengths of install_plugins tried
MultiLengths == {0, 1, 2}

BadMetadataPackages ==
  {NoMetadataPackage, TwoMetadataPackage} \cup
  { MultiPackage(n) : n \in MultiLengths }

InstallInputs ==
  {PythonPackage(V1), JavaScriptPackage(V2), NoEntryPackage, ClashPackage}
    \cup { EntryPackage(entry_point) : entry_point \in BadEntryPoints }
    \cup BadMetadataPackages

UpdateInputs == {PythonPackage(V1), PythonPackage(V2), NoEntryPackage}

PluginIdInputs == {Hello, <<"other">>}

\* ---- the calls

NewRequest(op, id, bytes) ==
  [op |-> op, pc |-> "entered", id |-> id, bytes |-> bytes, plugin |-> None,
   existing |-> None]

\* call c moves on as `call`
Proceed(c, call) ==
  /\ calls' = IF c \in DOMAIN calls THEN [calls EXCEPT ![c] = call]
              ELSE calls @@ (c :> call)
  /\ returned' = None
  /\ UNCHANGED responses

\* call c returns `result`
Respond(c, call, result) ==
  LET response == [c |-> c, op |-> call.op, id |-> call.id,
                   bytes |-> call.bytes, result |-> result]
  IN /\ calls' = Without(calls, c)
     /\ returned' = Some(response)
     /\ responses' = responses @@ (c :> response)

Untouched == UNCHANGED <<executions, workdirs, now, ticks, tasks, order, issued>>

\* plugin_service.rs:138-208  install_plugin_from_bytes up to its next await
\* (prepare_python_env for a Python plugin, repo.create otherwise)
InstallBegin(c, call) ==
  \E checked \in {install_checks(plugins, call.bytes)} :
    IF ~checked.ok THEN Respond(c, call, checked) /\ UNCHANGED disk
    ELSE \E unpacked \in {install_unpack(disk, call.bytes, checked.value)} :
           /\ disk' = unpacked.disk
           /\ IF ~unpacked.result.ok THEN Respond(c, call, unpacked.result)
              ELSE Proceed(c, [call EXCEPT
                     !.pc = IF unpacked.result.value.plugin_type = "Python"
                            THEN "prepare_python_env" ELSE "create",
                     !.plugin = IF unpacked.result.value.plugin_type = "Python"
                                THEN Some(unpacked.result.value)
                                ELSE Some(Stamped(unpacked.result.value, now))])

\* plugin_service.rs:56-59  install_plugin
install_plugin ==
  /\ started < MaxRequests
  /\ started' = started + 1
  /\ \E bytes \in InstallInputs :
       InstallBegin(started + 1, NewRequest("install", None, bytes))
  /\ UNCHANGED plugins
  /\ Untouched

\* plugin_service.rs:106  update_plugin goes on to install_plugin_from_bytes
update_install(c) ==
  /\ c \in DOMAIN calls
  /\ calls[c].op = "update"
  /\ calls[c].pc = "install"
  /\ InstallBegin(c, calls[c])
  /\ UNCHANGED <<plugins, started>>
  /\ Untouched

\* plugin_service.rs:209-216  prepare_python_env has run
install_prepare_python_env(c) ==
  /\ c \in DOMAIN calls
  /\ calls[c].pc = "prepare_python_env"
  /\ \E uv \in UvOutcomes :
     \E prepared \in {install_python_env(disk, Unwrap(calls[c].plugin), uv)} :
       /\ disk' = prepared.disk
       /\ IF ~prepared.result.ok THEN Respond(c, calls[c], prepared.result)
          ELSE Proceed(c, [calls[c] EXCEPT
                 !.pc = "create",
                 !.plugin = Some(Stamped(prepared.result.value, now))])
  /\ UNCHANGED <<plugins, started>>
  /\ Untouched

\* plugin_service.rs:238-246  repo.create and the end of the install
install_create(c) ==
  /\ c \in DOMAIN calls
  /\ calls[c].pc = "create"
  /\ \E inserted \in {install_insert(plugins, disk, Unwrap(calls[c].plugin))} :
     /\ plugins' = inserted.table
     /\ disk' = inserted.disk
     /\ Respond(c, calls[c], inserted.result)
  /\ UNCHANGED started
  /\ Untouched

\* plugin_service.rs:109-127  uninstall_plugin up to repo.delete
UninstallBegin(c, call) ==
  \E got \in {plugin_get(plugins, Unwrap(call.id))} :
    IF ~got.ok THEN Respond(c, call, got) /\ UNCHANGED disk
    ELSE /\ disk' = uninstall_remove(disk, got.value)
         /\ Proceed(c, [call EXCEPT !.pc = "delete"])

UninstallEnter(ids) ==
  /\ started < MaxRequests
  /\ started' = started + 1
  /\ \E id \in ids :
       UninstallBegin(started + 1, NewRequest("uninstall", Some(id), None))
  /\ UNCHANGED plugins
  /\ Untouched

uninstall_plugin == UninstallEnter(PluginIdInputs)

\* plugin_service.rs:105  update_plugin goes on to uninstall_plugin
update_uninstall(c) ==
  /\ c \in DOMAIN calls
  /\ calls[c].op = "update"
  /\ calls[c].pc = "uninstall"
  /\ UninstallBegin(c, calls[c])
  /\ UNCHANGED <<plugins, started>>
  /\ Untouched

\* plugin_service.rs:127  repo.delete, the end of uninstall_plugin; the
\* execution rows of the plugin go with its row
uninstall_delete(c) ==
  /\ c \in DOMAIN calls
  /\ calls[c].pc = "delete"
  /\ \E deleted \in {plugin_delete(plugins, Unwrap(calls[c].id))} :
     /\ plugins' = deleted.table
     /\ executions' = IF deleted.result.ok
                      THEN delete_cascade(executions, Unwrap(calls[c].id))
                      ELSE executions
     /\ IF calls[c].op = "update" /\ deleted.result.ok
        THEN Proceed(c, [calls[c] EXCEPT !.pc = "install"])
        ELSE Respond(c, calls[c], deleted.result)
  /\ UNCHANGED <<disk, started, workdirs, now, ticks, tasks, order, issued>>

\* plugin_service.rs:61-104  update_plugin up to uninstall_plugin
UpdateEnter(inputs) ==
  /\ started < MaxRequests
  /\ started' = started + 1
  /\ \E id \in PluginIdInputs, bytes \in inputs :
       LET c == started + 1
           call == NewRequest("update", Some(id), bytes)
       IN \E existing \in {plugin_get(plugins, id)} :
            IF ~existing.ok THEN Respond(c, call, existing)
            ELSE \E valid \in {update_validate(id, existing.value, bytes)} :
                   IF ~valid.ok THEN Respond(c, call, valid)
                   ELSE Proceed(c, [call EXCEPT
                          !.pc = "uninstall",
                          !.existing = Some(existing.value)])
  /\ UNCHANGED <<plugins, disk>>
  /\ Untouched

update_plugin == UpdateEnter(UpdateInputs)

\* the statement reads the clock (plugin_repository.rs:142), which may have
\* advanced since the last read
SetEnabled(op, enabled) ==
  /\ started < MaxRequests
  /\ started' = started + 1
  /\ \E id \in PluginIdInputs, t \in ClockReads(now, SkewSteps) :
       /\ now' = t
       /\ ticks' = ticks + Advanced(now, t)
       /\ plugins' = update_enabled(plugins, id, enabled, t)
       /\ Respond(started + 1, NewRequest(op, Some(id), None), Ok(<<>>))
  /\ UNCHANGED <<disk, executions, workdirs, tasks, order, issued>>

\* plugin_service.rs:130-132
enable_plugin == SetEnabled("enable", TRUE)

\* plugin_service.rs:134-136
disable_plugin == SetEnabled("disable", FALSE)

\* what one finished install of `bytes` leaves: <<plugins table, disk>>
Installed(bytes, uv) ==
  The({ The({ The({ The({ <<inserted.table, inserted.disk>> :
          inserted \in {install_insert(<<>>, prepared.disk,
                                       Stamped(prepared.result.value, 0))} }) :
        prepared \in {install_python_env(unpacked.disk,
                                         unpacked.result.value, uv)} }) :
      unpacked \in {install_unpack(NoDisk, bytes, checked.value)} }) :
    checked \in {install_checks(<<>>, bytes)} })

\* The plugin store and the directories outlive the process: the node starts
\* with no plugin installed, or with the Python plugin "hello" 1.0.0
\* installed by an earlier session.
InstallInit ==
  /\ \/ plugins = <<>> /\ disk = NoDisk
     \/ \E earlier \in {Installed(PythonPackage(V1), "ok")} :
          plugins = earlier[1] /\ disk = earlier[2]
  /\ responses = <<>>
  /\ executions = <<>>
  /\ workdirs = {}
  /\ order = <<>>
  /\ issued = {}
  /\ now = 0
  /\ ticks = 0
  /\ started = 0
  /\ calls = <<>>
  /\ returned = None
  /\ tasks = <<>>

InstallNext ==
  \/ install_plugin
  \/ uninstall_plugin
  \/ update_plugin
  \/ enable_plugin
  \/ disable_plugin
  \/ \E c \in Requests : update_uninstall(c)
  \/ \E c \in Requests : uninstall_delete(c)
  \/ \E c \in Requests : update_install(c)
  \/ \E c \in Requests : install_prepare_python_env(c)
  \/ \E c \in Requests : install_create(c)

InstallSpec == InstallInit /\ [][InstallNext]_vars

\* ---- the two tables together: executions of a plugin that is uninstalled

\* a plugin row of an earlier install of plugin "p", with its files in its
\* plugin directory
StorePlugin(row) ==
  [plugin_path |-> PathToString(plugin_dir_for(<<"p">>))]
  @@ [row EXCEPT !.python_venv_path = None]

StoreInit ==
  /\ \E row \in InitPlugins : plugins = ("p" :> StorePlugin(row))
  /\ disk = create_dir_all(NoDisk, plugin_dir_for(<<"p">>))
  /\ responses = <<>>
  /\ InitEmpty \/ InitEarlier
  /\ now = 0
  /\ ticks = 0
  /\ started = 0
  /\ calls = <<>>
  /\ returned = None
  /\ tasks = <<>>

\* plugin_service.rs:109-128  uninstall_plugin called for plugin "p"
uninstall_installed == UninstallEnter({"p"})

StoreNext ==
  \/ Next
  \/ uninstall_installed
  \/ \E c \in Requests : uninstall_delete(c)

StoreSpec == StoreInit /\ [][StoreNext]_vars

\* ------------------------------------------------------- the extractor

\* member names an archive may hold: a file, a directory, a file in a
\* directory, names with "." and "..", an absolute name, the empty name
MemberNames ==
  { <<"a">>, <<"a", Sep>>, <<"a", Sep, "b">>, <<Dot, Sep, "a">>,
    <<"a", Sep, Dot, Dot, Sep, "b">>, <<"a", Sep, Dot, Dot>>,
    <<Dot, Dot, Sep, "b">>, <<"a", Sep, Dot, Dot, Sep, Dot, Dot, Sep, "b">>,
    <<Sep, "b">>, <<>> }

MaxMembers == 2

\* the archives given to the extractor: up to MaxMembers members in any
\* order, or bytes that are no zip archive
ExtractInputs ==
  { [zip_ok |-> FALSE, members |-> <<>>], [zip_ok |-> TRUE, members |-> <<>>] }
  \cup
  UNION { { [zip_ok |-> TRUE, members |-> [i \in 1..n |-> File(names[i])]] :
              names \in [1..n -> MemberNames] } : n \in 1..MaxMembers }

\* the directory extract_zip is given: it exists (plugin_service.rs:170)
TargetDir == plugin_dir_for(Hello)

ExtractInit ==
  /\ \E bytes \in ExtractInputs :
       calls = (1 :> NewRequest("extract_zip", None, bytes))
  /\ disk = create_dir_all(NoDisk, TargetDir)
  /\ plugins = <<>>
  /\ responses = <<>>
  /\ executions = <<>>
  /\ workdirs = {}
  /\ order = <<>>
  /\ issued = {}
  /\ now = 0
  /\ ticks = 0
  /\ started = 1
  /\ returned = None
  /\ tasks = <<>>

\* plugin_service.rs:253-287  extract_zip(bytes, target_dir)
extract_archive ==
  /\ 1 \in DOMAIN calls
  /\ \E done \in {extract_zip(disk, calls[1].bytes, TargetDir)} :
       /\ disk' = done.disk
       /\ Respond(1, calls[1], done.result)
  /\ UNCHANGED <<plugins, started>>
  /\ Untouched

ExtractNext == extract_archive

ExtractSpec == ExtractInit /\ [][ExtractNext]_vars

\* ------------------------------------------------------- the plugin id

\* characters of a plugin id that the checks tell apart
IdChars == {"a", Space, Sep, Backslash, Dot}

MaxIdLen == 3

IdStrings == UNION { [1..n -> IdChars] : n \in 0..MaxIdLen }

\* the plugin_id and name of a metadata.json: a plugin_id of any text, or no
\* plugin_id and a name of any text
IdInputsOfMetadata ==
  { [plugin_id |-> Some(id), name |-> <<"a">>] : id \in IdStrings } \cup
  { [plugin_id |-> None, name |-> name] : name \in IdStrings }

NormalizeInit ==
  /\ \E spec \in IdInputsOfMetadata :
       calls = (1 :> NewRequest("normalize_plugin_id", None, spec))
  /\ disk = NoDisk
  /\ plugins = <<>>
  /\ responses = <<>>
  /\ executions = <<>>
  /\ workdirs = {}
  /\ order = <<>>
  /\ issued = {}
  /\ now = 0
  /\ ticks = 0
  /\ started = 1
  /\ returned = None
  /\ tasks = <<>>

\* plugin_service.rs:151  normalize_plugin_id(plugin_id, &name)
normalize_metadata ==
  /\ 1 \in DOMAIN calls
  /\ Respond(1, calls[1],
             normalize_plugin_id(calls[1].bytes.plugin_id, calls[1].bytes.name))
  /\ UNCHANGED <<plugins, disk, started>>
  /\ Untouched

NormalizeNext == normalize_metadata

NormalizeSpec == NormalizeInit /\ [][NormalizeNext]_vars

\* ---------------------------------------------------------- the parameters

\* JSON values a caller may send or a schema may name
JsonValues == {Int1, Int3, Float15, StringA, BoolTrue}

Name_y == <<"y">>

\* a parameter of a schema
Param(name, param_type, default, choices) ==
  [name |-> name, param_type |-> param_type, description |-> None,
   default |-> default, choices |-> choices]

\* the parameters schemas are made of: x of every type; an integer x with
\* and without default and choices (Int3 is not among the choices); a string
\* y without default, with a string and with an integer as default; a name
\* with whitespace around it and an empty name
ParamChoices ==
  { Param(Name_x, t, None, None) : t \in PluginParamTypes } \cup
  { Param(Name_x, "integer", d, c) :
      d \in {None, Some(Int1), Some(Int3)},
      c \in {None, Some(<<Int1, Int2>>)} } \cup
  { Param(Name_y, "string", d, None) :
      d \in {None, Some(StringA), Some(Int1)} } \cup
  { Param(<<Space, "x">>, "json", None, None), Param(<<>>, "json", None, None) }

MaxParams == 2

Schemas == UNION { [1..n -> ParamChoices] : n \in 0..MaxParams }

\* the parameters column of a plugin row: NULL, blank text, text that is no
\* JSON list of parameters, or a schema as validate_parameters wrote it
RawParameters ==
  {None, Some(<<Space>>), Some(<<"{">>)} \cup
  { Some(to_string(schema)) : schema \in Schemas }

\* the maps a caller may send: values for some of x and z
ProvidedNames == {Name_x, <<"z">>}

ProvidedMaps == UNION { [names -> JsonValues] : names \in SUBSET ProvidedNames }

ResolveInit ==
  /\ \E raw \in RawParameters, provided \in ProvidedMaps :
       calls = (1 :> NewRequest("resolve_parameters", None,
                                [raw_parameters |-> raw, provided |-> provided]))
  /\ disk = NoDisk
  /\ plugins = <<>>
  /\ responses = <<>>
  /\ executions = <<>>
  /\ workdirs = {}
  /\ order = <<>>
  /\ issued = {}
  /\ now = 0
  /\ ticks = 0
  /\ started = 1
  /\ returned = None
  /\ tasks = <<>>

\* execution_service.rs:44, 75, 129  resolve_parameters(&plugin.parameters, params)
resolve_provided ==
  /\ 1 \in DOMAIN calls
  /\ Respond(1, calls[1],
             ResolveParameters(calls[1].bytes.raw_parameters,
                               calls[1].bytes.provided))
  /\ UNCHANGED <<plugins, disk, started>>
  /\ Untouched

ResolveNext == resolve_provided

ResolveSpec == ResolveInit /\ [][ResolveNext]_vars

\* ---- what is stored and read again

StringQ == <<"string", <<Quote, "a", Backslash>> >>

\* a parameter with a description
Described(name, param_type, description, default, choices) ==
  [name |-> name, param_type |-> param_type, description |-> description,
   default |-> default, choices |-> choices]

\* the parameters the stored schemas are made of: names, descriptions and
\* strings with a quote, a backslash and a space in them, a default of every
\* JSON type, choices that are empty and choices that hold null; two
\* parameters that validate_parameters refuses.  Metadata is read with
\* serde (plugin_service.rs:15-27), so a default is never Some(null): null
\* reads as None.
StoredParams ==
  { Described(n, "json", None, None, None) :
      n \in {Name_x, <<Quote, Backslash>>, <<"a", Space, "b">>} } \cup
  { Described(Name_x, "json", None, d, None) :
      d \in {Some(Int1), Some(Float15), Some(StringA), Some(StringQ),
             Some(BoolTrue)} } \cup
  { Described(Name_x, "number", None, Some(Float15), None),
    Described(Name_x, "string", Some(<<>>), None, None),
    Described(Name_x, "string", Some(<<"d", Quote>>), None, None),
    Described(Name_x, "integer", None, None, Some(<<>>)),
    Described(Name_x, "json", None, None, Some(<<JsonNull, Int1>>)),
    Described(<<Quote, Backslash>>, "json", Some(<<Backslash, "d">>),
              Some(StringQ), Some(<<JsonNull, StringQ, Float15>>)),
    Described(<<Space, "x">>, "json", None, None, None),
    Described(Name_x, "boolean", None, Some(Int1), None) }

StoredSchemas == UNION { [1..n -> StoredParams] : n \in 0..MaxParams }

\* what resolve_python_dependencies may return: a variant with the relative
\* path of the file it found
StoredDependencies ==
  { [kind |-> k, path |-> p \o <<f>>] :
      k \in DependencyKinds,
      p \in {<<>>, <<"pkg", Sep>>, <<"a", Quote, Backslash, Space, "b", Sep>>},
      f \in {"pyproject.toml", "requirements.txt"} }

RoundTripInit ==
  /\ \/ \E parameters \in {None} \cup { Some(schema) : schema \in StoredSchemas } :
          calls = (1 :> NewRequest("parameters", None, parameters))
     \/ \E dependencies \in {None} \cup { Some(d) : d \in StoredDependencies } :
          calls = (1 :> NewRequest("python_dependencies", None, dependencies))
  /\ disk = NoDisk
  /\ plugins = <<>>
  /\ responses = <<>>
  /\ executions = <<>>
  /\ workdirs = {}
  /\ order = <<>>
  /\ issued = {}
  /\ now = 0
  /\ ticks = 0
  /\ started = 1
  /\ returned = None
  /\ tasks = <<>>

\* plugin_service.rs:162 and execution_service.rs:371: the parameters column
\* is written by validate_parameters and read by parse_parameters
store_and_parse_parameters ==
  /\ 1 \in DOMAIN calls
  /\ calls[1].op = "parameters"
  /\ \E stored \in {validate_parameters(calls[1].bytes)} :
       Respond(1, calls[1],
               [stored |-> stored,
                parsed |-> IF stored.ok THEN ParseParameters(stored.value)
                           ELSE stored])
  /\ UNCHANGED <<plugins, disk, started>>
  /\ Untouched

\* plugin_service.rs:198-207 and api/dto/plugin.rs:31: the
\* python_dependencies column is written by serialize_python_dependencies
\* and read by parse_python_dependencies
store_and_parse_dependencies ==
  /\ 1 \in DOMAIN calls
  /\ calls[1].op = "python_dependencies"
  /\ \E stored \in { IF IsSome(calls[1].bytes)
                     THEN serialize_python_dependencies(Unwrap(calls[1].bytes))
                     ELSE Ok(<<>>) } :
       Respond(1, calls[1],
               [stored |-> stored,
                parsed |-> IF ~stored.ok THEN stored
                           ELSE IF IsSome(calls[1].bytes)
                             THEN parse_python_dependencies(Some(stored.value))
                           ELSE parse_python_dependencies(None)])
  /\ UNCHANGED <<plugins, disk, started>>
  /\ Untouched

RoundTripNext == store_and_parse_parameters \/ store_and_parse_dependencies

RoundTripSpec == RoundTripInit /\ [][RoundTripNext]_vars

\* ---- schema validation at install

ValidateInit ==
  /\ \E parameters \in {None} \cup { Some(schema) : schema \in Schemas } :
       calls = (1 :> NewRequest("validate_parameters", None, parameters))
  /\ disk = NoDisk
  /\ plugins = <<>>
  /\ responses = <<>>
  /\ executions = <<>>
  /\ workdirs = {}
  /\ order = <<>>
  /\ issued = {}
  /\ now = 0
  /\ ticks = 0
  /\ started = 1
  /\ returned = None
  /\ tasks = <<>>

\* plugin_service.rs:162  validate_parameters(parameters)
validate_schema ==
  /\ 1 \in DOMAIN calls
  /\ Respond(1, calls[1], validate_parameters(calls[1].bytes))
  /\ UNCHANGED <<plugins, disk, started>>
  /\ Untouched

ValidateNext == validate_schema

ValidateSpec == ValidateInit /\ [][ValidateNext]_vars

\* ------------------------------------------------------- wait_for_states

\* execution_service.rs:185  sleep(Duration::from_millis(100))
POLL_INTERVAL_MS == 100

\* the width of the integers of the deadline: timeout_ms is a u64 and
\* timestamp_millis() an i64; the model keeps the arithmetic of
\* `now + timeout_ms as i64` at a width of 24 bits instead of 64
Width == 24

IMax == 2^(Width - 1) - 1
UMax == 2^Width - 1

\* `u as i64`: the same bits read as a signed integer
AsSigned(u) == IF u > IMax THEN u - 2^Width ELSE u

\* the timeouts a caller may pass: none, one and a half poll intervals, and
\* the largest u64
TimeoutInputs == {0, POLL_INTERVAL_MS + 50, UMax}

\* the sets of target states a caller may pass
TargetInputs ==
  { {"PreviewReady"}, {"Running", "PreviewReady"},
    {"Completed", "Failed", "Stopped"} }

\* how long a sleep of 100 ms may last
SleepSteps == {POLL_INTERVAL_MS, POLL_INTERVAL_MS + 50}

WaitId == UuidV4("execution", 1)

\* the node after prepare (call 1) of plugin "p" has spawned its child at
\* time 0: the row is Running and its supervisor waits for the child
WaitInit ==
  /\ \E row \in InitPlugins : plugins = (row.plugin_id :> row)
  /\ disk = NoDisk
  /\ responses = <<>>
  /\ executions = update_pid(create_with_phase(<<>>, WaitId, "p", "Prepare", 0),
                             WaitId, PidOf(1))
  /\ workdirs = {work_dir_for(WaitId)}
  /\ order = (WaitId :> [phase |-> "Prepare", running |-> TRUE, terminal |-> FALSE])
  /\ issued = {}
  /\ now = 0
  /\ ticks = 0
  /\ started = 1
  /\ calls = <<>>
  /\ returned = None
  /\ tasks = (1 :> [ op |-> "prepare",
                     exec_id |-> WaitId,
                     work_dir |-> work_dir_for(WaitId),
                     success_status |-> SuccessStatusOf("prepare"),
                     cleanup_on_success |-> CleanupOnSuccessOf("prepare"),
                     keep_on_success |-> ~CleanupOnSuccessOf("prepare")
                                         /\ SuccessStatusOf("prepare") = "PreviewReady",
                     env |-> <<>> ])

\* execution_service.rs:170-176  wait_for_states: the deadline is computed
\* from the clock, then the loop starts with exec_repo.get
wait_for_states ==
  /\ started < MaxCalls
  /\ started' = started + 1
  /\ \E id \in IdInputs, targets \in TargetInputs, timeout_ms \in TimeoutInputs :
       Continue(started + 1,
                [ NewCall("wait_for_states", "", id, WrongToken, <<>>) @@
                  [ targets |-> targets, timeout_ms |-> timeout_ms,
                    deadline |-> now + AsSigned(timeout_ms) ]
                  EXCEPT !.pc = "get" ])
  /\ UNCHANGED <<plugins, disk, responses, executions, workdirs, now, ticks, tasks,
                 order, issued>>

\* execution_service.rs:178-184  one poll: exec_repo.get, the target check
\* and the deadline check
wait_poll(c) ==
  /\ c \in DOMAIN calls
  /\ calls[c].op = "wait_for_states"
  /\ calls[c].pc = "get"
  /\ LET current == exec_get(executions, calls[c].id)
     IN IF ~current.ok THEN Return(c, calls[c], current)
        ELSE IF current.value.status \in calls[c].targets
          THEN Return(c, calls[c], current)
        ELSE IF now > calls[c].deadline
          THEN Return(c, calls[c], current)
        ELSE Continue(c, [calls[c] EXCEPT !.pc = "sleep"])
  /\ UNCHANGED <<plugins, disk, responses, executions, workdirs, now, ticks, started,
                 tasks, order, issued>>

\* execution_service.rs:185  sleep(100 ms), then the next turn of the loop
wait_sleep(c) ==
  /\ c \in DOMAIN calls
  /\ calls[c].op = "wait_for_states"
  /\ calls[c].pc = "sleep"
  /\ \E d \in SleepSteps : now' = now + d
  /\ Continue(c, [calls[c] EXCEPT !.pc = "get"])
  /\ UNCHANGED <<plugins, disk, responses, executions, workdirs, ticks, started,
                 tasks, order, issued>>

WaitNext ==
  \/ wait_for_states
  \/ \E c \in Calls : wait_poll(c)
  \/ \E c \in Calls : wait_sleep(c)
  \/ stop_execution
  \/ \E c \in Calls : stop_update_status(c)
  \/ \E c \in Calls : supervisor_exit(c)

WaitSpec == WaitInit /\ [][WaitNext]_vars

\* the runtime runs a task that can make a step, and a sleep ends
WaitLiveSpec ==
  /\ WaitSpec
  /\ \A c \in Calls : WF_vars(wait_poll(c)) /\ WF_vars(wait_sleep(c))

\* ------------------------------------------------------------ properties

\* the step issues API call c (the call enters its handler)
Issues(c, op) ==
  /\ started = c - 1
  /\ started' = c
  /\ IF c \in DOMAIN calls' THEN calls'[c].op = op
     ELSE IsSome(returned') /\ Unwrap(returned').c = c /\ Unwrap(returned').op = op

\* the request of the call c the step issues
RequestIssued(c) == IF c \in DOMAIN calls' THEN calls'[c] ELSE Unwrap(returned')

\* the step answers call c with an error
AnswersErr(c) ==
  /\ c \notin DOMAIN calls'
  /\ IsSome(returned')
  /\ Unwrap(returned').c = c
  /\ ~Unwrap(returned').result.ok

\* the last step answered an `op` call with the error message msg
ReturnedErr(op, msg) ==
  /\ IsSome(returned)
  /\ Unwrap(returned).op = op
  /\ ~Unwrap(returned).result.ok
  /\ Unwrap(returned).result.err[2] = msg

\* C1: an apply on an execution whose phase is not Prepare, or whose status
\* is not PreviewReady, or whose stored token differs from the provided one,
\* or with the clock past expires_at, returns an error, spawns no child and
\* leaves every field of the execution row as it was.
ApplyPreconditionFails(row, confirm_token, t) ==
  \/ row.phase # "Prepare"
  \/ row.status # "PreviewReady"
  \/ row.confirm_token # Some(confirm_token)
  \/ IsSome(row.expires_at) /\ t > Unwrap(row.expires_at)

C1_RejectedApplyLeavesRow ==
  [][\A c \in Calls :
       Issues(c, "apply") =>
         LET req == RequestIssued(c) IN
           (IF req.id \in DOMAIN executions
            THEN ApplyPreconditionFails(executions[req.id], req.confirm_token, now')
            ELSE FALSE)
           => /\ AnswersErr(c)
              /\ executions' = executions
              /\ tasks' = tasks
              /\ workdirs' = workdirs]_vars

\* an apply with a wrong token was refused while the row is PreviewReady
C1_Witness ==
  /\ ReturnedErr("apply", "Invalid confirm token")
  /\ Unwrap(returned).id \in DOMAIN executions
  /\ executions[Unwrap(returned).id].status = "PreviewReady"

\* C2: a confirm token is consumed by apply: of the apply requests that carry
\* the correct token for one PreviewReady execution at most one is accepted
\* and spawns an apply child, so no execution ever has two apply children.
C2_OneApplyChildPerExecution ==
  \A c1, c2 \in DOMAIN tasks :
    (/\ tasks[c1].op = "apply"
     /\ tasks[c2].op = "apply"
     /\ tasks[c1].exec_id = tasks[c2].exec_id)
    => c1 = c2

\* C3 (as stated): every PreviewReady execution has phase Prepare, a non-null
\* confirm token, and expires_at equal to the finished_at written with the
\* PreviewReady transition plus exactly 600000 ms.
C3_ExpiryFromFinishedAt ==
  \A e \in DOMAIN executions :
    executions[e].status = "PreviewReady" =>
      /\ executions[e].phase = "Prepare"
      /\ IsSome(executions[e].confirm_token)
      /\ IsSome(executions[e].finished_at)
      /\ executions[e].expires_at =
           Some(Unwrap(executions[e].finished_at) + 600000)

\* C3 (amended): every PreviewReady execution has phase Prepare, a non-null
\* confirm token, and expires_at equal to the clock value the supervisor read
\* when it issued that token plus exactly 600000 ms; finished_at is a
\* separate, later read of the clock, so expires_at <= finished_at + 600000.
C3_ExpiryFromIssueTime ==
  \A e \in DOMAIN executions :
    executions[e].status = "PreviewReady" =>
      /\ executions[e].phase = "Prepare"
      /\ IsSome(executions[e].confirm_token)
      /\ IsSome(executions[e].finished_at)
      /\ \E r \in issued :
           /\ r.id = e
           /\ Some(r.token) = executions[e].confirm_token
           /\ executions[e].expires_at = Some(r.at + 600000)
           /\ r.at <= Unwrap(executions[e].finished_at)

\* a prepare of this run succeeded while the clock moved between the
\* supervisor's two reads
C3_Witness ==
  \E e \in DOMAIN executions :
    /\ executions[e].status = "PreviewReady"
    /\ e # EarlierId
    /\ \E r \in issued :
         /\ r.id = e
         /\ Some(r.token) = executions[e].confirm_token
         /\ Unwrap(executions[e].finished_at) > r.at

\* C4: for a PreviewReady execution, an apply issued once the clock is past
\* expires_at is refused and leaves the row as it was, with the error
\* 'Preview has expired' when it carries the correct token; an apply with the
\* correct token at now <= expires_at is not refused for expiry.
ExpiredMessage == "Preview has expired, please run prepare again"

C5_NoRunningAfterTerminal ==
  \A e \in DOMAIN executions :
    (e \in DOMAIN order /\ order[e].phase = executions[e].phase
       /\ order[e].terminal)
    => executions[e].status # "Running"

\* the step is the exit handling of the supervisor spawned by call c
SupervisorExits(c) == c \in DOMAIN tasks /\ c \notin DOMAIN tasks'

\* C6: the supervisor's terminal write is determined by (exit code,
\* success_status): exit 0 of a prepare child gives PreviewReady with a fresh
\* confirm token, expires_at = now + 10 min and the captured stdout stored as
\* both stdout and preview_payload; exit 0 of an execute or apply child gives
\* Completed; a non-zero exit, a missing exit code or a wait error gives
\* Failed; exit_code and finished_at are always recorded, so Completed implies
\* exit_code == 0.
C6_CompletedHasExitZero ==
  \A e \in DOMAIN executions :
    executions[e].status = "Completed" => executions[e].exit_code = Some(0)

C6_TerminalWriteOf(c) ==
  LET task == tasks[c]
      row == executions'[task.exec_id]
  IN /\ IsSome(row.finished_at)
     /\ Unwrap(row.finished_at) = now'
     /\ row.status \in {"PreviewReady", "Completed", "Failed"}
     /\ row.status = "PreviewReady" <=>
          (row.exit_code = Some(0) /\ task.op = "prepare")
     /\ row.status = "Completed" <=>
          (row.exit_code = Some(0) /\ task.op \in {"execute", "apply"})
     /\ row.status = "Failed" <=> row.exit_code # Some(0)
     /\ row.status = "PreviewReady" =>
          /\ IsSome(row.confirm_token)
          /\ \A r \in issued : r.token # Unwrap(row.confirm_token)
          /\ \A e \in DOMAIN executions :
               executions[e].confirm_token # row.confirm_token
          /\ row.expires_at = Some(now + 10 * 60 * 1000)
          /\ row.preview_payload = row.stdout

C6_TerminalWrite ==
  /\ []C6_CompletedHasExitZero
  /\ [][\A c \in Calls : SupervisorExits(c) => C6_TerminalWriteOf(c)]_vars

\* each of the three terminal writes has happened in this run: a prepare
\* ended in PreviewReady with its plan stored, and the last step answered an
\* apply whose execution meanwhile is Completed or Failed
C6_Witness ==
  /\ EarlierId \in DOMAIN executions
  /\ executions[EarlierId].status \in {"Completed", "Failed"}
  /\ \E e \in DOMAIN executions :
       /\ e # EarlierId
       /\ executions[e].status = "PreviewReady"
       /\ executions[e].preview_payload = Some("PLAN")

\* C7: when spawning the child fails in execute, prepare or apply, the call
\* returns an error, the work directory is removed and the execution row
\* ends with status Failed.
SpawnErrors ==
  { <<"Execution", "Entry point not found">>,
    <<"Execution", "Python venv not found">>,
    <<"Io", "spawn">> }

C7_SpawnFailureMarksFailed ==
  (/\ IsSome(returned)
   /\ ~Unwrap(returned).result.ok
   /\ Unwrap(returned).result.err \in SpawnErrors
   /\ IsSome(Unwrap(returned).execution_id))
  => LET e == Unwrap(Unwrap(returned).execution_id)
     IN /\ work_dir_for(e) \notin workdirs
        /\ executions[e].status = "Failed"

\* nothing is in flight for execution e: no handler working on it, no
\* supervisor waiting for a child of it
Quiescent(e) ==
  /\ \A c \in DOMAIN calls :
       /\ calls[c].id # e
       /\ IsSome(calls[c].execution) => Unwrap(calls[c].execution).id # e
  /\ \A c \in DOMAIN tasks : tasks[c].exec_id # e

\* C8: the work directory is removed for every execution that reaches
\* Completed, Failed or Stopped; the directory retained after a successful
\* prepare is removed when the apply completes or the execution is stopped.
\* Once such an execution has nothing in flight its directory is gone.
C8_WorkDirRemoved ==
  \A e \in DOMAIN executions :
    (executions[e].status \in {"Completed", "Failed", "Stopped"} /\ Quiescent(e))
    => work_dir_for(e) \notin workdirs

\* C9: concurrent execute and prepare calls for the same plugin each create
\* their own execution row with a distinct id and their own work directory;
\* no call's supervisor writes to, or removes the work directory of, an
\* execution created by another call.
C9_OwnRowAndWorkDir ==
  /\ \A e1, e2 \in DOMAIN executions :
       e1 # e2 => work_dir_for(e1) # work_dir_for(e2)
  /\ \A c1, c2 \in DOMAIN tasks :
       (c1 # c2 /\ tasks[c1].op \in {"execute", "prepare"})
       => /\ tasks[c1].exec_id # tasks[c2].exec_id
          /\ tasks[c1].work_dir # tasks[c2].work_dir
  /\ \A c \in DOMAIN tasks :
       /\ tasks[c].work_dir = work_dir_for(tasks[c].exec_id)
       /\ tasks[c].op \in {"execute", "prepare"}
            => tasks[c].exec_id = UuidV4("execution", c)

\* the step is call c's start_process: create_with_phase and the spawn
StartsProcess(c) ==
  /\ c \in DOMAIN calls
  /\ calls[c].pc = "start_process"
  /\ IF c \in DOMAIN calls' THEN calls'[c].pc # "start_process" ELSE TRUE

C9_CreatesOwnRow(c) ==
  LET created == DOMAIN executions' \ DOMAIN executions IN
  /\ DOMAIN executions \subseteq DOMAIN executions'
  /\ created = {UuidV4("execution", c)}
  /\ \A e \in DOMAIN executions : executions'[e] = executions[e]
  /\ workdirs \subseteq workdirs'
  /\ workdirs' \ workdirs \subseteq {work_dir_for(UuidV4("execution", c))}

C9_SupervisesOwnRow(c) ==
  LET own == UuidV4("execution", c) IN
  /\ \A e \in DOMAIN executions : e # own => executions'[e] = executions[e]
  /\ workdirs \ workdirs' \subseteq {work_dir_for(own)}

C9_CallsDoNotConflict ==
  /\ []C9_OwnRowAndWorkDir
  /\ [][\A c \in Calls :
          /\ StartsProcess(c) => C9_CreatesOwnRow(c)
          /\ (SupervisorExits(c) /\ tasks[c].op \in {"execute", "prepare"})
               => C9_SupervisesOwnRow(c)]_vars

\* the supervisor of one execute / prepare call has written its terminal
\* state while the child of another such call is still running, its row
\* Running and its work directory in place
C9_Witness ==
  \E c \in DOMAIN tasks, e \in DOMAIN executions :
    /\ tasks[c].op \in {"execute", "prepare"}
    /\ executions[tasks[c].exec_id].status = "Running"
    /\ tasks[c].work_dir \in workdirs
    /\ e \notin {tasks[c].exec_id, EarlierId}
    /\ executions[e].plugin_id = executions[tasks[c].exec_id].plugin_id
    /\ executions[e].status \in {"PreviewReady", "Completed", "Failed"}

\* C10: execute and prepare on a plugin that is disabled, whose minimum host
\* version exceeds the host version, or whose provided parameters fail
\* resolution return an error (Disabled / validation error) before any side
\* effect: no execution row, no work directory, no child.
C10_GateFails(plugin, params) ==
  \/ ~plugin.enabled
  \/ /\ IsSome(plugin.min_atom_node_version)
     /\ Unwrap(plugin.min_atom_node_version).kind = "semver"
     /\ VersionLess(CARGO_PKG_VERSION, Unwrap(plugin.min_atom_node_version).version)
  \/ ~ResolveParameters(plugin.parameters, params).ok

C10_GateBeforeSideEffects ==
  [][\A c \in Calls, op \in {"execute", "prepare"} :
       Issues(c, op) =>
         LET req == RequestIssued(c) IN
           (IF req.plugin_id \in DOMAIN plugins
            THEN C10_GateFails(plugins[req.plugin_id], req.params)
            ELSE FALSE)
           => /\ AnswersErr(c)
              /\ Unwrap(returned').result.err[1] =
                   IF plugins[req.plugin_id].enabled THEN "Execution"
                   ELSE "PluginDisabled"
              /\ executions' = executions
              /\ workdirs' = workdirs
              /\ tasks' = tasks]_vars

\* a prepare was refused because the plugin requires a newer host
C10_Witness ==
  /\ ReturnedErr("prepare", "Plugin requires newer atom_node")
  /\ plugins[Unwrap(returned).plugin_id].enabled
  /\ executions = <<>>
  /\ workdirs = {}

\* C11: an execution created by the single-phase execute shortcut has phase
\* Apply from creation, its child runs with ATOM_PHASE=apply, its success
\* status is Completed with work_dir cleanup, it never has status
\* PreviewReady or a confirm token, and every apply on it is refused.  Stated
\* for every row in phase Apply: execute creates its row in that phase, a row
\* never leaves it, and no row in it is PreviewReady, holds a token or
\* accepts an apply.
C11_ApplyPhaseRowsPlain ==
  /\ \A e \in DOMAIN executions :
       executions[e].phase = "Apply" =>
         /\ executions[e].status # "PreviewReady"
         /\ executions[e].confirm_token = None
  /\ \A c \in DOMAIN tasks :
       tasks[c].op = "execute" =>
         /\ tasks[c].env.ATOM_PHASE = "apply"
         /\ tasks[c].success_status = "Completed"
         /\ tasks[c].cleanup_on_success
         /\ ~tasks[c].keep_on_success

C11_ExecuteStep(c) ==
  /\ (StartsProcess(c) /\ calls[c].op = "execute") =>
       LET id == UuidV4("execution", c) IN
       /\ id \in DOMAIN executions'
       /\ executions'[id].phase = "Apply"
       /\ executions'[id].status = "Pending"
       /\ executions'[id].confirm_token = None
       /\ calls[c].env = Some([ATOM_PLUGIN_PARAMS |->
                                 Unwrap(calls[c].env).ATOM_PLUGIN_PARAMS,
                               ATOM_PHASE |-> "apply",
                               ATOM_PREVIEW_PLAN |-> None])
  /\ (SupervisorExits(c) /\ tasks[c].op = "execute") =>
       LET row == executions'[tasks[c].exec_id] IN
       /\ row.status \in {"Completed", "Failed"}
       /\ tasks[c].work_dir \notin workdirs'
  /\ Issues(c, "apply") =>
       LET req == RequestIssued(c) IN
       (IF req.id \in DOMAIN executions
        THEN executions[req.id].phase = "Apply" ELSE FALSE)
       => /\ AnswersErr(c)
          /\ executions' = executions
          /\ tasks' = tasks

C11_ExecuteShortcut ==
  /\ []C11_ApplyPhaseRowsPlain
  /\ [][/\ \A e \in DOMAIN executions :
             executions[e].phase = "Apply" =>
               (e \in DOMAIN executions' /\ executions'[e].phase = "Apply")
        /\ \A c \in Calls : C11_ExecuteStep(c)]_vars

\* an apply on an execution created by execute (phase Apply, no preview ever
\* stored) was refused
C11_Witness ==
  /\ ReturnedErr("apply", "Only preview executions can be applied")
  /\ Unwrap(returned).id \in DOMAIN executions
  /\ executions[Unwrap(returned).id].phase = "Apply"
  /\ executions[Unwrap(returned).id].expires_at = None
  /\ executions[Unwrap(returned).id].status \in {"Running", "Completed", "Failed"}

\* ---- plugin service

\* something is at the path, a directory or a file
Exists(d, path) == Resolve(path) \in d.dirs \cup d.files

\* in this step the plugin service answers call c
Responds(c) ==
  /\ c \notin DOMAIN responses
  /\ c \in DOMAIN responses'

\* in this step the install of call c (an install, or the install that ends
\* an update) fails after it has created the plugin directory: while
\* unpacking, or providing the environment, or inserting the row
FailsAfterCreateDir(c) ==
  /\ Responds(c)
  /\ ~responses'[c].result.ok
  /\ IF c \in DOMAIN calls
       THEN \/ calls[c].pc \in {"prepare_python_env", "create"}
            \/ /\ calls[c].pc = "install"
               /\ install_checks(plugins, calls[c].bytes).ok
       ELSE /\ responses'[c].op = "install"
            /\ install_checks(plugins, responses'[c].bytes).ok

\* the plugin id of the package a call carries; no id (the empty text, which
\* is never an id) when its metadata cannot be read
PackageId(bytes) ==
  IF read_metadata_from_zip(bytes).ok
    THEN read_metadata_from_zip(bytes).value[1].plugin_id[1]
    ELSE <<>>

\* C12: when an install fails at any step after the plugin directory has been
\* created, then at its return neither plugins/<plugin_id> nor
\* data/python_envs/<plugin_id> exists and no row for that plugin_id has been
\* added
C12_FailedInstallLeavesNothing ==
  [][\A c \in Requests :
       FailsAfterCreateDir(c) =>
         /\ ~Exists(disk', plugin_dir_for(PackageId(responses'[c].bytes)))
         /\ ~Exists(disk', python_env_dir_for(PackageId(responses'[c].bytes)))
         /\ plugins' = plugins]_vars

\* the files a row names are on disk: the plugin directory, the entry point
\* under it and, for a Python plugin, the environment with its interpreter
RowIntact(d, row) ==
  /\ is_dir(d, PathOf(row.plugin_path))
  /\ is_file(d, PathJoin(PathOf(row.plugin_path), row.entry_point))
  /\ row.plugin_type = "Python" =>
       /\ IsSome(row.python_venv_path)
       /\ is_dir(d, PathOf(Unwrap(row.python_venv_path)))
       /\ is_file(d, python_executable_path(
                       PathOf(Unwrap(row.python_venv_path))))

\* every call so far was an install, and all have returned
OnlyInstallsAllReturned ==
  /\ calls = <<>>
  /\ \A c \in DOMAIN responses : responses[c].op = "install"

\* C13: of two installs of archives with the same plugin_id at most one
\* succeeds, the other fails with AlreadyExists or a uniqueness error, and
\* after both have returned the row of the successful one is there together
\* with its plugin directory and entry-point file: the rollback of the one
\* that failed has removed nothing of the winner's
C13_OneInstallerOwnsDirectory ==
  OnlyInstallsAllReturned =>
    \A a, b \in DOMAIN responses :
      (/\ a # b
       /\ PackageId(responses[a].bytes) = PackageId(responses[b].bytes)
       /\ responses[a].result.ok)
      => /\ ~responses[b].result.ok
         /\ PackageId(responses[a].bytes) \in DOMAIN plugins
         /\ RowIntact(disk, plugins[PackageId(responses[a].bytes)])

\* C14: after any sequence of completed install, update, uninstall, enable
\* and disable operations plugin_id is unique across the rows, every row's
\* entry point is a file under its plugin_path, and every Python row's
\* environment exists and holds the interpreter
C14_StoreInvariant ==
  calls = <<>> =>
    \A id \in DOMAIN plugins :
      /\ plugins[id].plugin_id = id
      /\ RowIntact(disk, plugins[id])

\* in this step install_plugin_from_bytes starts for call c: a new install,
\* or an update that has uninstalled the old version
InstallEnters(c) ==
  \/ /\ started = c - 1
     /\ started' = c
     /\ IF c \in DOMAIN calls' THEN calls'[c].op = "install"
        ELSE responses'[c].op = "install"
  \/ /\ c \in DOMAIN calls
     /\ calls[c].pc = "install"
     /\ c \in DOMAIN calls' => calls'[c].pc # "install"

\* the package of call c, in flight or answered after this step
BytesOf(c) ==
  IF c \in DOMAIN calls' THEN calls'[c].bytes ELSE responses'[c].bytes

\* C15: an install of an archive whose plugin_id is already in the plugin
\* store returns AlreadyExists and changes nothing: the rows and the
\* directories are as before the call
C15_InstallOfExistingIdRefused ==
  [][\A c \in Requests :
       (InstallEnters(c) /\ PackageId(BytesOf(c)) \in DOMAIN plugins)
       => /\ Responds(c)
          /\ responses'[c].result = Err("PluginAlreadyExists", "")
          /\ plugins' = plugins
          /\ disk' = disk]_vars

\* an install of a package whose plugin is installed, with its files on
\* disk, has just been refused
C15_Witness ==
  /\ IsSome(returned)
  /\ Unwrap(returned).op = "install"
  /\ Unwrap(returned).result = Err("PluginAlreadyExists", "")
  /\ PackageId(Unwrap(returned).bytes) \in DOMAIN plugins
  /\ RowIntact(disk, plugins[PackageId(Unwrap(returned).bytes)])

\* the lowest version: a candidate that passes update's checks against it
\* is valid but for its version
V0 == [kind |-> "semver", version |-> <<0, 0, 0>>]

ValidCandidate(id, bytes) == update_validate(id, [version |-> V0], bytes).ok

CandidateVersion(bytes) == read_metadata_from_zip(bytes).value[1].version

\* in this step update_plugin starts for call c on plugin id with `bytes`
UpdateEnters(c, id, bytes) ==
  /\ started = c - 1
  /\ started' = c
  /\ IF c \in DOMAIN calls'
       THEN calls'[c].op = "update" /\ calls'[c].id = Some(id)
            /\ calls'[c].bytes = bytes
       ELSE responses'[c].op = "update" /\ responses'[c].id = Some(id)
            /\ responses'[c].bytes = bytes

\* an update of an installed plugin with a valid candidate whose version is
\* equal or lower returns an error; rows and directories stay as they were
C16_NotNewerRefused ==
  \A c \in Requests, id \in PluginIdInputs, bytes \in UpdateInputs :
    (/\ UpdateEnters(c, id, bytes)
     /\ id \in DOMAIN plugins
     /\ ValidCandidate(id, bytes)
     /\ ~VersionLess(plugins[id].version.version,
                     CandidateVersion(bytes).version))
    => /\ Responds(c)
       /\ ~responses'[c].result.ok
       /\ plugins' = plugins
       /\ disk' = disk

\* the version that update call c, now returning, found installed
FoundInstalled(c) ==
  IF c \in DOMAIN calls THEN calls[c].existing
  ELSE IF Unwrap(responses'[c].id) \in DOMAIN plugins
    THEN Some(plugins[Unwrap(responses'[c].id)])
  ELSE None

Newer(c) ==
  VersionLess(Unwrap(FoundInstalled(c)).version.version,
              CandidateVersion(responses'[c].bytes).version)

UpdateReturns(c) ==
  /\ Responds(c)
  /\ responses'[c].op = "update"
  /\ IsSome(FoundInstalled(c))
  /\ ValidCandidate(Unwrap(responses'[c].id), responses'[c].bytes)

\* the row of the plugin is the candidate's after the step
Replaced(c) ==
  /\ responses'[c].result.ok
  /\ Unwrap(responses'[c].id) \in DOMAIN plugins'
  /\ plugins'[Unwrap(responses'[c].id)].version
       = CandidateVersion(responses'[c].bytes)

\* C16 as stated: an update with an otherwise valid candidate replaces the
\* installed plugin if and only if the candidate's version is strictly
\* greater than the installed one; an equal or lower version is refused with
\* rows and directories unchanged
C16_ReplacesIffNewer ==
  [][/\ C16_NotNewerRefused
     /\ \A c \in Requests :
          UpdateReturns(c) => (Replaced(c) <=> Newer(c))]_vars

\* C16, amended: an update with an otherwise valid candidate replaces the
\* installed plugin only if the candidate's version is strictly greater (with
\* a greater version the replacement still fails when the install of the
\* candidate fails); an equal or lower version is refused with rows and
\* directories unchanged
C16_ReplacesOnlyIfNewer ==
  [][/\ C16_NotNewerRefused
     /\ \A c \in Requests :
          UpdateReturns(c) =>
            /\ Replaced(c) => Newer(c)
            /\ responses'[c].result.ok => Replaced(c)]_vars

\* an update to 1.1.0 has replaced 1.0.0, and a later update back to 1.0.0
\* has been refused
C16_Witness ==
  \E a, b \in DOMAIN responses :
    /\ responses[a].op = "update" /\ responses[a].result.ok
    /\ responses[a].bytes = PythonPackage(V2)
    /\ responses[b].op = "update" /\ ~responses[b].result.ok
    /\ responses[b].bytes = PythonPackage(V1)
    /\ responses[b].result.err[2]
         = "Plugin version is not newer than installed version"
    /\ Hello \in DOMAIN plugins
    /\ plugins[Hello].version = V2

\* in this step uninstall_plugin(id) starts for call c
UninstallEnters(c, id) ==
  /\ started = c - 1
  /\ started' = c
  /\ IF c \in DOMAIN calls'
       THEN calls'[c].op = "uninstall" /\ calls'[c].id = Some(id)
       ELSE responses'[c].op = "uninstall" /\ responses'[c].id = Some(id)

\* C17: uninstall of a plugin that is in the store removes its plugin
\* directory and its environment directory, whether they were on disk or not,
\* and then its row, and returns Ok; uninstall of a plugin_id that is not in
\* the store returns NotFound, so a second uninstall returns NotFound
C17_Uninstall ==
  [][\A c \in Requests :
       /\ \A id \in PluginIdInputs :
            UninstallEnters(c, id) =>
              IF id \in DOMAIN plugins
                THEN /\ ~Responds(c)
                     /\ calls'[c].pc = "delete"
                     /\ ~Exists(disk', PathOf(plugins[id].plugin_path))
                     /\ IsSome(plugins[id].python_venv_path) =>
                          ~Exists(disk',
                                  PathOf(Unwrap(plugins[id].python_venv_path)))
                     /\ plugins' = plugins
                ELSE /\ Responds(c)
                     /\ responses'[c].result = Err("PluginNotFound", "")
                     /\ plugins' = plugins
                     /\ disk' = disk
       /\ (/\ Responds(c)
           /\ responses'[c].op = "uninstall"
           /\ c \in DOMAIN calls)
          => IF Unwrap(calls[c].id) \in DOMAIN plugins
               THEN /\ responses'[c].result = Ok(<<>>)
                    /\ plugins' = Without(plugins, Unwrap(calls[c].id))
               ELSE /\ responses'[c].result = Err("PluginNotFound", "")
                    /\ plugins' = plugins]_vars

\* two uninstalls of the installed plugin have returned, the first Ok, the
\* second NotFound; the row and both directories are gone
C17_Witness ==
  \E a, b \in DOMAIN responses :
    /\ a < b
    /\ responses[a].op = "uninstall" /\ responses[a].id = Some(Hello)
    /\ responses[a].result.ok
    /\ responses[b].op = "uninstall" /\ responses[b].id = Some(Hello)
    /\ responses[b].result = Err("PluginNotFound", "")
    /\ Hello \notin DOMAIN plugins
    /\ ~Exists(disk, plugin_dir_for(Hello))
    /\ ~Exists(disk, python_env_dir_for(Hello))

\* ---- the extractor

\* what the step wrote: the files and directories that were not there
Written == (disk'.files \cup disk'.dirs) \ (disk.files \cup disk.dirs)

\* strictly below the directory
Descendant(at, dir) == IsPrefix(Resolve(dir), at) /\ at # Resolve(dir)

\* the first member of the archive with a name of the set, if any
FirstOf(members, bad) ==
  IF \E i \in 1..Len(members) : members[i].name \in bad
    THEN Some(CHOOSE i \in 1..Len(members) :
                /\ members[i].name \in bad
                /\ \A j \in 1..(i - 1) : members[j].name \notin bad)
  ELSE None

\* extraction fails, and has written what the members before the first
\* member with a name of the set make it write, nothing of that member or a
\* later one
FailsAtFirstOf(bytes, bad) ==
  IsSome(FirstOf(bytes.members, bad)) =>
    /\ ~responses'[1].result.ok
    /\ disk' = extract_zip(disk,
                 [bytes EXCEPT !.members =
                    SubSeq(@, 1, Unwrap(FirstOf(bytes.members, bad)) - 1)],
                 TargetDir).disk

AbsoluteOrParentDir == {n \in MemberNames : IsAbsolute(n) \/ HasParentDir(n)}

AbsoluteOrClimbing ==
  {n \in MemberNames : IsAbsolute(n) \/ Climbs(0, Components(n))}

\* C18 as stated: whatever the extractor writes is a descendant of the
\* target directory, and a member whose name is absolute or contains a
\* parent-dir component is never written: extraction fails at that member
C18_NoParentDirMemberWritten ==
  [][Responds(1) =>
       /\ \A at \in Written : Descendant(at, TargetDir)
       /\ FailsAtFirstOf(responses'[1].bytes, AbsoluteOrParentDir)]_vars

\* C18, amended: whatever the extractor writes is a descendant of the target
\* directory, and a member whose name is absolute or whose parent-dir
\* components climb above the archive root is never written: extraction
\* fails at that member (a parent-dir component that stays below the root, as
\* in a/../b, is let through and the member written inside the target)
C18_NoEscapingMemberWritten ==
  [][Responds(1) =>
       /\ \A at \in Written : Descendant(at, TargetDir)
       /\ FailsAtFirstOf(responses'[1].bytes, AbsoluteOrClimbing)]_vars

\* the first member has been written below the target and the second, whose
\* name climbs out of the archive root, has made the extraction fail
C18_Witness ==
  /\ IsSome(returned)
  /\ Unwrap(returned).op = "extract_zip"
  /\ Unwrap(returned).bytes.members = <<File(<<"a">>), File(<<Dot, Dot, Sep, "b">>)>>
  /\ Unwrap(returned).result = Err("Execution", "Invalid file path in archive")
  /\ is_file(disk, PathJoin(TargetDir, <<"a">>))
  /\ disk.files = {Resolve(PathJoin(TargetDir, <<"a">>))}

\* ---- the plugin id

\* the text the metadata gives for the id: plugin_id, or name without one
RawId(spec) == IF IsSome(spec.plugin_id) THEN Unwrap(spec.plugin_id) ELSE spec.name

\* non-empty, no whitespace around it, no separator, not absolute, and one
\* normal path segment
WellFormedId(raw) ==
  /\ raw # <<>>
  /\ raw[1] # Space
  /\ raw[Len(raw)] # Space
  /\ \A i \in 1..Len(raw) : raw[i] \notin {Sep, Backslash}
  /\ raw \notin {<<Dot>>, <<Dot, Dot>>}

\* the directory is a direct child of the parent: the parent's location and
\* one name more
DirectChild(dir, parent) ==
  /\ Len(Resolve(dir)) = Len(Resolve(parent)) + 1
  /\ IsPrefix(Resolve(parent), Resolve(dir))

\* C19: the metadata's plugin_id (its name when it has none) is accepted only
\* if it is non-empty, has no leading or trailing whitespace, holds no '/' or
\* '\' separator, is not absolute and is exactly one normal path segment; so
\* for every accepted plugin_id the plugin directory and the environment
\* directory are direct children of plugins/ and data/python_envs/
C19_AcceptedIdIsOneSegment ==
  [][Responds(1) /\ responses'[1].result.ok =>
       /\ WellFormedId(RawId(responses'[1].bytes))
       /\ responses'[1].result.value = RawId(responses'[1].bytes)
       /\ DirectChild(plugin_dir_for(responses'[1].result.value), plugins_dir)
       /\ DirectChild(python_env_dir_for(responses'[1].result.value),
                      python_envs_dir)]_vars

\* a name with a space inside, given without plugin_id, has been accepted
C19_Witness ==
  /\ IsSome(returned)
  /\ Unwrap(returned).op = "normalize_plugin_id"
  /\ Unwrap(returned).bytes = [plugin_id |-> None, name |-> <<"a", Space, "a">>]
  /\ Unwrap(returned).result = Ok(<<"a", Space, "a">>)

\* ---- the entry point

\* the metadata and the metadata directory of a package
PackageSpec(bytes) == read_metadata_from_zip(bytes).value[1]
PackageMetadataDir(bytes) == read_metadata_from_zip(bytes).value[2]

\* in this step install_plugin_from_bytes succeeds for call c
InstallSucceeds(c) ==
  /\ Responds(c)
  /\ responses'[c].op \in {"install", "update"}
  /\ responses'[c].result.ok

\* the entry point as the metadata gives it, or below the metadata directory
EntryPointCandidates(bytes) ==
  {PackageSpec(bytes).entry_point} \cup
  (IF IsSome(PackageMetadataDir(bytes))
     THEN {PathToString(PathJoin(Unwrap(PackageMetadataDir(bytes)),
                                 PackageSpec(bytes).entry_point))}
     ELSE {})

\* C20: install rejects an entry point that is empty, absolute, holds a '..'
\* component or resolves to no file under plugin_path or the metadata
\* directory; for every successful install the stored plugin_id is the
\* metadata's and the stored entry_point is a relative path (the entry point
\* itself, else <metadata_dir>/entry_point) whose join with plugin_path is an
\* existing file
C20_EntryPointResolved ==
  [][\A c \in Requests :
       InstallSucceeds(c) =>
         /\ \E i \in 1..Len(PackageSpec(responses'[c].bytes).entry_point) :
              PackageSpec(responses'[c].bytes).entry_point[i] # Space
         /\ ~IsAbsolute(PackageSpec(responses'[c].bytes).entry_point)
         /\ ~HasParentDir(PackageSpec(responses'[c].bytes).entry_point)
         /\ PackageId(responses'[c].bytes) \in DOMAIN plugins'
         /\ plugins'[PackageId(responses'[c].bytes)].plugin_id
              = Unwrap(PackageSpec(responses'[c].bytes).plugin_id)
         /\ plugins'[PackageId(responses'[c].bytes)].entry_point
              \in EntryPointCandidates(responses'[c].bytes)
         /\ ~IsAbsolute(plugins'[PackageId(responses'[c].bytes)].entry_point)
         /\ is_file(disk',
              PathJoin(PathOf(plugins'[PackageId(responses'[c].bytes)].plugin_path),
                       plugins'[PackageId(responses'[c].bytes)].entry_point))]_vars

\* ---- the metadata of a package

\* the members of a package whose file name is metadata.json
MetadataMembers(bytes) ==
  { i \in 1..Len(bytes.members) :
      /\ Components(bytes.members[i].name) # <<>>
      /\ Components(bytes.members[i].name)
           [Len(Components(bytes.members[i].name))] = MetadataJson }

\* the package holds one metadata.json and it is the multi-install form
MultiMetadata(bytes) ==
  /\ Cardinality(MetadataMembers(bytes)) = 1
  /\ \A i \in MetadataMembers(bytes) : bytes.members[i].content.json = "multi"

\* the number of plugins a multi-install metadata lists
MultiCount(bytes) ==
  Len(bytes.members[CHOOSE i \in MetadataMembers(bytes) : TRUE]
        .content.install_plugins)

\* no metadata.json, more than one, or a multi-install list not of one plugin
BadMetadata(bytes) ==
  \/ Cardinality(MetadataMembers(bytes)) # 1
  \/ MultiMetadata(bytes) /\ MultiCount(bytes) # 1

MetadataErrors ==
  { Err("Execution", "metadata.json not found in package"),
    Err("Execution", "Multiple metadata.json files found in package"),
    Err("Execution", "Package metadata must describe exactly one plugin") }

\* C21: install fails with a metadata error, and creates no directory and no
\* row, when the archive holds no metadata.json, more than one metadata.json,
\* or a multi-install metadata whose install_plugins list has not exactly one
\* element
C21_BadMetadataRefused ==
  [][\A c \in Requests :
       (InstallEnters(c) /\ BadMetadata(BytesOf(c)))
       => /\ Responds(c)
          /\ responses'[c].result \in MetadataErrors
          /\ plugins' = plugins
          /\ disk' = disk]_vars

\* a package with two metadata.json files and one listing no plugin have
\* been refused, with nothing on disk and no row
C21_Witness ==
  /\ \E c \in DOMAIN responses :
       /\ responses[c].op = "install"
       /\ responses[c].bytes = TwoMetadataPackage
       /\ responses[c].result =
            Err("Execution", "Multiple metadata.json files found in package")
  /\ \E c \in DOMAIN responses :
       /\ responses[c].op = "install"
       /\ responses[c].bytes = MultiPackage(0)
       /\ responses[c].result =
            Err("Execution", "Package metadata must describe exactly one plugin")
  /\ plugins = <<>>
  /\ disk = NoDisk

\* ---- the parameters

\* the schema a parameters column holds: none when NULL or blank
SchemaOf(raw) ==
  The({ IF parsed.ok THEN parsed.value ELSE <<>> :
          parsed \in {ParseParameters(raw)} })


\* the parameters of the schema with this name
Named(schema, name) == { i \in 1..Len(schema) : schema[i].name = name }

\* the values a parameter's choices list
ChoiceSet(param) ==
  { Unwrap(param.choices)[i] : i \in 1..Len(Unwrap(param.choices)) }

\* one of the five reasons to refuse holds of the schema and the map
MustFail(schema, provided) ==
  \/ schema = <<>> /\ DOMAIN provided # {}
  \/ \E n \in DOMAIN provided : Named(schema, n) = {}
  \/ \E n \in DOMAIN provided : \E i \in Named(schema, n) :
       ~Matches(schema[i].param_type, provided[n])
  \/ \E n \in DOMAIN provided : \E i \in Named(schema, n) :
       IsSome(schema[i].choices) /\ provided[n] \notin ChoiceSet(schema[i])
  \/ \E i \in 1..Len(schema) :
       schema[i].name \notin DOMAIN provided /\ ~IsSome(schema[i].default)

\* in this step resolve answers
Resolves ==
  /\ Responds(1)
  /\ responses'[1].op = "resolve_parameters"

\* C22: resolve(schema, provided) fails whenever the schema is empty and
\* provided is not, a provided name is not in the schema, a provided value
\* does not match the declared type, a provided value is not among the
\* parameter's choices, or a schema parameter is not provided and has no
\* default
C22_ResolveRefuses ==
  [][Resolves =>
       \/ ~responses'[1].result.ok
       \/ \A parsed \in {ParseParameters(responses'[1].bytes.raw_parameters)} :
            ~(parsed.ok /\ MustFail(parsed.value, responses'[1].bytes.provided))]_vars

\* a value of the right type that is not among the choices has been refused
C22_Witness ==
  /\ IsSome(returned)
  /\ Unwrap(returned).op = "resolve_parameters"
  /\ Unwrap(returned).bytes =
       [raw_parameters |->
          Some(to_string(<< Param(Name_x, "integer", Some(Int1),
                                  Some(<<Int1, Int2>>)) >>)),
        provided |-> (Name_x :> Int3)]
  /\ ~Unwrap(returned).result.ok

\* the resolved value of one parameter is the provided one, else the
\* default, and is among the choices
C23_ValueOf(param, provided, resolved) ==
  /\ param.name \in DOMAIN provided => resolved[param.name] = provided[param.name]
  /\ param.name \notin DOMAIN provided =>
       /\ IsSome(param.default)
       /\ resolved[param.name] = Unwrap(param.default)
  /\ IsSome(param.choices) => resolved[param.name] \in ChoiceSet(param)

\* C23: whenever resolve(schema, provided) succeeds, the keys of the resolved
\* map are exactly the names of the schema's parameters, each key maps to the
\* provided value when there is one and to the schema default otherwise, and
\* every resolved value is among the parameter's choices when it has choices
C23_ResolvedMap ==
  [][(Resolves /\ responses'[1].result.ok) =>
       \A schema \in {SchemaOf(responses'[1].bytes.raw_parameters)} :
         /\ DOMAIN responses'[1].result.value =
              { schema[i].name : i \in 1..Len(schema) }
         /\ \A i \in 1..Len(schema) :
              C23_ValueOf(schema[i], responses'[1].bytes.provided,
                          responses'[1].result.value)]_vars

\* a map with x provided and y taken from its default
C23_Witness ==
  /\ IsSome(returned)
  /\ Unwrap(returned).op = "resolve_parameters"
  /\ Unwrap(returned).bytes.provided = (Name_x :> Int1)
  /\ Unwrap(returned).bytes.raw_parameters =
       Some(to_string(<< Param(Name_x, "integer", Some(Int3),
                               Some(<<Int1, Int2>>)),
                         Param(Name_y, "string", Some(StringA), None) >>))
  /\ Unwrap(returned).result =
       Ok((Name_x :> Int1) @@ (Name_y :> StringA))

\* ---- schema validation at install

\* in this step validate_parameters answers for a parameter list
Validates ==
  /\ Responds(1)
  /\ responses'[1].op = "validate_parameters"
  /\ IsSome(responses'[1].bytes)

\* a parameter's default is not among its choices
DefaultOutsideChoices(param) ==
  /\ IsSome(param.default)
  /\ IsSome(param.choices)
  /\ Unwrap(param.default) \notin ChoiceSet(param)

\* an empty name, a name with whitespace around it, a duplicate name, or a
\* default of another type than declared
BadNamesOrDefaultType(schema) ==
  \/ \E i \in 1..Len(schema) :
       \/ schema[i].name = <<>>
       \/ schema[i].name[1] = Space
       \/ schema[i].name[Len(schema[i].name)] = Space
       \/ /\ IsSome(schema[i].default)
          /\ ~Matches(schema[i].param_type, Unwrap(schema[i].default))
  \/ \E i, j \in 1..Len(schema) : i # j /\ schema[i].name = schema[j].name

\* C24: schema validation at install rejects a parameter list with an empty
\* name, a name with surrounding whitespace, a duplicate name, a default
\* that does not match the declared type, or a default that is not a member
\* of the declared choices; so the schema an install stores has no default
\* that violates its choices
C24_SchemaValidated ==
  [][Validates =>
       /\ (\/ BadNamesOrDefaultType(Unwrap(responses'[1].bytes))
           \/ \E i \in 1..Len(Unwrap(responses'[1].bytes)) :
                DefaultOutsideChoices(Unwrap(responses'[1].bytes)[i]))
          => ~responses'[1].result.ok
       /\ responses'[1].result.ok =>
            \A i \in 1..Len(SchemaOf(responses'[1].result.value)) :
              ~DefaultOutsideChoices(
                 SchemaOf(responses'[1].result.value)[i])]_vars

\* the part of C24 about names and the type of the default
C24_NamesAndDefaultType ==
  [][(Validates /\ BadNamesOrDefaultType(Unwrap(responses'[1].bytes)))
       => ~responses'[1].result.ok]_vars

\* ---- failures in the supervisor

\* in this step call c spawns its child and hands it to a supervisor
SupervisorStarts(c) == c \notin DOMAIN tasks /\ c \in DOMAIN tasks'

\* in this step the supervisor of call c finds that its child has failed: it
\* ends and the row it has written holds no exit code 0
SupervisorFails(c) ==
  /\ c \in DOMAIN tasks
  /\ c \notin DOMAIN tasks'
  /\ executions'[tasks[c].exec_id].exit_code # Some(0)

\* the call returns Ok when the supervisor starts; when the supervisor fails
\* the call is no longer in flight, nothing is returned to any caller and
\* the row is Failed
FailureStaysInRow(c) ==
  /\ SupervisorStarts(c) =>
       /\ IsSome(returned')
       /\ Unwrap(returned').c = c
       /\ Unwrap(returned').result.ok
       /\ c \notin DOMAIN calls'
  /\ SupervisorFails(c) =>
       /\ c \notin DOMAIN calls
       /\ calls' = calls
       /\ returned' = None
       /\ executions'[tasks[c].exec_id].status = "Failed"

\* C25: a failure inside the background supervisor (non-zero exit or wait
\* error) is never returned to the caller of execute, prepare or apply: the
\* call has already returned Ok once the child was spawned, and the failure
\* is visible only as the execution row having status Failed with stderr
\* populated
C25_FailureInRowWithStderr ==
  [][\A c \in Calls :
       /\ FailureStaysInRow(c)
       /\ SupervisorFails(c) =>
            IsSome(executions'[tasks[c].exec_id].stderr)]_vars

\* C25 as the code has it: the failure stays in the row, which is Failed;
\* its stderr is what the child wrote (null when it wrote nothing) or the
\* wait error
C25_FailureInRow ==
  [][\A c \in Calls :
       /\ FailureStaysInRow(c)
       /\ SupervisorFails(c) =>
            executions'[tasks[c].exec_id].stderr
              \in {None, Some("boom"), Some("Error: wait")}]_vars

\* a child has ended with a non-zero exit code and nothing on stderr, after
\* its call had returned: the row is Failed and its stderr is null
C25_Witness ==
  \E id \in DOMAIN executions :
    /\ executions[id].status = "Failed"
    /\ executions[id].exit_code = Some(1)
    /\ executions[id].stderr = None
    /\ calls = <<>>
    /\ tasks = <<>>
    /\ returned = None

\* ---- wait_for_states

Waiting(c) == c \in DOMAIN calls /\ calls[c].op = "wait_for_states"

\* in this step the wait of call c returns
WaitReturns(c) ==
  /\ Waiting(c)
  /\ c \notin DOMAIN calls'

\* in this step the wait of call c polls the row
Polls(c) == Waiting(c) /\ calls[c].pc = "get" /\ calls'[c] # calls[c]

\* in this step call c enters wait_for_states
WaitEnters(c) == wait_for_states /\ c \in DOMAIN calls' /\ c \notin DOMAIN calls

\* the deadline is the clock at the call plus the timeout
DeadlineSet(c) ==
  WaitEnters(c) => calls'[c].deadline = now + calls'[c].timeout_ms

\* a poll of an existing row returns it when it is in a target state or the
\* deadline has passed, and only then; the next poll comes at least 100 ms
\* after the last; the table is not written
PollStep(c) ==
  /\ (Waiting(c) /\ calls[c].pc = "get" /\ calls[c].id \in DOMAIN executions
      /\ (c \notin DOMAIN calls' \/ calls'[c] # calls[c])) =>
       /\ executions' = executions
       /\ IF \/ executions[calls[c].id].status \in calls[c].targets
             \/ now > calls[c].deadline
            THEN /\ c \notin DOMAIN calls'
                 /\ Unwrap(returned').result = Ok(executions[calls[c].id])
            ELSE c \in DOMAIN calls'
  /\ (Waiting(c) /\ calls[c].pc = "sleep" /\ c \in DOMAIN calls'
      /\ calls'[c].pc = "get") =>
       /\ now' >= now + POLL_INTERVAL_MS
       /\ executions' = executions

\* C26: wait_for_states(id, targets, timeout_ms) always terminates for an
\* existing execution: it returns the current execution as soon as a poll
\* finds its status in targets, and otherwise returns the current execution
\* (Ok, not an error) at the first poll after the deadline now + timeout_ms,
\* polling at most once per 100 ms and never modifying the row
C26_WaitForStates ==
  /\ [][\A c \in Calls : DeadlineSet(c) /\ PollStep(c)]_vars
  /\ \A c \in Calls : Waiting(c) ~> ~Waiting(c)

\* C26 for the timeouts that are the same number as a u64 and as an i64
C26_WaitForStatesBelowIMax ==
  /\ [][\A c \in Calls :
          /\ (WaitEnters(c) /\ calls'[c].timeout_ms <= IMax) => DeadlineSet(c)
          /\ PollStep(c)]_vars
  /\ \A c \in Calls : Waiting(c) ~> ~Waiting(c)

\* ---- enable and disable

\* in this step call c enables a plugin that is enabled, or disables one that
\* is disabled
SetsSameFlag(c) ==
  /\ Responds(c)
  /\ responses'[c].op \in {"enable", "disable"}
  /\ Unwrap(responses'[c].id) \in DOMAIN plugins
  /\ plugins[Unwrap(responses'[c].id)].enabled = (responses'[c].op = "enable")

\* C27: enable is idempotent and so is disable: applying enable to a plugin
\* that is already enabled (or disable to one already disabled) leaves every
\* field of the plugin row unchanged
C27_SameFlagLeavesRow ==
  [][\A c \in Requests : SetsSameFlag(c) => plugins' = plugins]_vars

\* C27 as the code has it: every field but updated_at is left unchanged, and
\* updated_at is the clock read of the statement
C27_SameFlagLeavesRowButUpdatedAt ==
  [][\A c \in Requests :
       SetsSameFlag(c) =>
         /\ plugins' = [plugins EXCEPT ![Unwrap(responses'[c].id)].updated_at = now']
         /\ responses'[c].result.ok]_vars

\* an enabled plugin has been enabled again, later than it was installed: it
\* is enabled as before and its updated_at has moved
C27_Witness ==
  /\ IsSome(returned)
  /\ Unwrap(returned).op = "enable"
  /\ Unwrap(returned).id = Some(Hello)
  /\ Hello \in DOMAIN plugins
  /\ plugins[Hello].enabled
  /\ plugins[Hello].updated_at > plugins[Hello].created_at
  /\ \A c \in DOMAIN responses : responses[c].op = "enable"

\* ---- what is stored and read again

\* in this step the column named by op is written and read again
RoundTrips(op) ==
  /\ Responds(1)
  /\ responses'[1].op = op
  /\ responses'[1].result.stored.ok

\* C28: serialising and then parsing a validated parameter schema returns the
\* same schema (names, types, descriptions, defaults and choices), and
\* serialising then parsing a dependency variant returns the same variant,
\* for every schema and variant accepted at install; a plugin without
\* parameters has no schema stored and reads as the empty list
C28_RoundTrip ==
  [][/\ RoundTrips("parameters") =>
          responses'[1].result.parsed =
            Ok(IF IsSome(responses'[1].bytes)
               THEN Unwrap(responses'[1].bytes) ELSE <<>>)
     /\ RoundTrips("python_dependencies") =>
          responses'[1].result.parsed = Ok(responses'[1].bytes)]_vars

\* a schema of two parameters with quotes and backslashes in the name, the
\* description, the default and the choices has been stored and read again
C28_Witness ==
  /\ IsSome(returned)
  /\ Unwrap(returned).op = "parameters"
  /\ Unwrap(returned).bytes =
       Some(<< Described(<<Quote, Backslash>>, "json", Some(<<Backslash, "d">>),
                         Some(StringQ), Some(<<JsonNull, StringQ, Float15>>)),
               Described(Name_x, "json", None, Some(StringA), None) >>)
  /\ Unwrap(returned).result.stored.ok
  /\ Unwrap(returned).result.parsed.ok

\* ---- stop

\* in this step a stop of execution id returns Ok
StopReturnsOk(id) ==
  /\ IsSome(returned')
  /\ returned' # returned
  /\ Unwrap(returned').op = "stop"
  /\ Unwrap(returned').id = id
  /\ Unwrap(returned').result.ok

\* C29: after stop(execution_id) has returned Ok, the execution's status is
\* Stopped and remains Stopped in every later state, under every interleaving
\* with the spawn path and the background supervisor: the status is Stopped
\* when stop returns, and no later step takes a row out of Stopped
C29_StoppedStays ==
  [][\A id \in DOMAIN executions :
       /\ StopReturnsOk(id) => executions'[id].status = "Stopped"
       /\ executions[id].status = "Stopped" => executions'[id].status = "Stopped"]_vars

\* in this step the stop call c writes the status and returns
StopWrites(c) ==
  /\ c \in DOMAIN calls
  /\ calls[c].op = "stop"
  /\ calls[c].pc = "update_status"
  /\ c \notin DOMAIN calls'

\* C30: stop changes the status only of a non-terminal execution (Pending,
\* Running, PreviewReady): calling stop on an execution whose status is
\* already Completed or Failed leaves its status and every other field
\* unchanged, and stop never changes any field other than status
C30_StopFrame ==
  [][\A c \in Calls :
       StopWrites(c) =>
         executions' =
           [id \in DOMAIN executions |->
              IF id = calls[c].id
                 /\ executions[id].status \in {"Pending", "Running", "PreviewReady"}
              THEN [executions[id] EXCEPT !.status = "Stopped"]
              ELSE executions[id]]]_vars

\* the part of C30 about the other fields and the other rows: the write of
\* stop changes the status of its own row and nothing else
C30_OnlyStatus ==
  [][\A c \in Calls :
       StopWrites(c) =>
         \E status \in ExecutionStatus :
           executions' =
             [id \in DOMAIN executions |->
                IF id = calls[c].id
                THEN [executions[id] EXCEPT !.status = status]
                ELSE executions[id]]]_vars

\* ---- stop and apply

\* the step is the begin-apply write of call c (execution_service.rs:142)
BeginsApply(c) ==
  /\ c \in DOMAIN calls
  /\ calls[c].pc = "begin_apply"
  /\ c \in DOMAIN calls'
  /\ calls'[c].pc = "apply_spawn"

\* C31: once stop has been accepted for an execution no apply child is
\* spawned for it afterwards: every apply that has not yet begun its apply
\* step when stop completes is refused.  In particular an apply that passed
\* its precondition check before the stop finds the row Stopped (only an
\* accepted stop writes that status) and does not begin its apply step.
C31_NoApplyAfterStop ==
  [][\A c \in Calls :
       (/\ c \in DOMAIN calls
        /\ calls[c].op = "apply"
        /\ calls[c].id \in DOMAIN executions
        /\ executions[calls[c].id].status = "Stopped")
       => ~BeginsApply(c)]_vars

\* C33: the begin-apply step of an accepted apply sets phase Apply and status
\* Pending, sets pid, stdout, stderr, exit_code, confirm_token and
\* finished_at to null and refreshes started_at in one write, leaves id,
\* plugin_id, preview_payload and expires_at as they were, and creates no
\* row: the apply runs under the execution id of the prepare.
C33_BeginApplyFrame ==
  [][\A c \in Calls :
       (BeginsApply(c) /\ calls[c].id \in DOMAIN executions) =>
         /\ DOMAIN executions' = DOMAIN executions
         /\ \A e \in DOMAIN executions :
              executions'[e] =
                IF e # calls[c].id THEN executions[e]
                ELSE [executions[e] EXCEPT
                        !.phase = "Apply", !.status = "Pending",
                        !.pid = None, !.stdout = None, !.stderr = None,
                        !.exit_code = None, !.confirm_token = None,
                        !.finished_at = None, !.started_at = now']
         /\ Unwrap(calls'[c].execution).id = calls[c].id]_vars

\* an apply has made its begin-apply write and not yet spawned its child:
\* the row of the prepare is in phase Apply, Pending, and still holds the plan
C33_Witness ==
  \E c \in DOMAIN calls :
    /\ calls[c].pc = "apply_spawn"
    /\ calls[c].id \in DOMAIN executions
    /\ executions[calls[c].id].phase = "Apply"
    /\ executions[calls[c].id].status = "Pending"
    /\ executions[calls[c].id].confirm_token = None
    /\ executions[calls[c].id].preview_payload = Some("PLAN")
    /\ IsSome(executions[calls[c].id].expires_at)

\* ---- the child's environment

\* the environment of the child that call c has started or its supervisor
\* watches
ChildEnvs(c) ==
  (IF c \in DOMAIN calls /\ calls[c].pc = "update_pid"
   THEN {Unwrap(calls[c].env)} ELSE {})
  \cup (IF c \in DOMAIN tasks THEN {tasks[c].env} ELSE {})

OpOfChild(c) == IF c \in DOMAIN calls THEN calls[c].op ELSE tasks[c].op

ExecIdOfChild(c) ==
  IF c \in DOMAIN calls THEN Unwrap(calls[c].execution).id ELSE tasks[c].exec_id

\* C34: for every accepted apply the apply child is started with
\* ATOM_PHASE=apply and with ATOM_PREVIEW_PLAN equal to the stdout captured
\* from the prepare child of the same execution (the stored preview_payload);
\* the plan is omitted only when the prepare produced no stdout; every
\* prepare child is started with ATOM_PHASE=prepare and without a plan.  The
\* write that makes a row PreviewReady stores the captured stdout as the
\* payload.
C34_ChildEnvironment ==
  /\ [](\A c \in Calls : \A env \in ChildEnvs(c) :
          /\ OpOfChild(c) = "apply" =>
               /\ env.ATOM_PHASE = "apply"
               /\ ExecIdOfChild(c) \in DOMAIN executions
               /\ env.ATOM_PREVIEW_PLAN =
                    executions[ExecIdOfChild(c)].preview_payload
          /\ OpOfChild(c) = "prepare" =>
               /\ env.ATOM_PHASE = "prepare"
               /\ env.ATOM_PREVIEW_PLAN = None)
  /\ [][\A e \in DOMAIN executions :
          (executions'[e] # executions[e] /\ executions'[e].status = "PreviewReady")
          => /\ executions'[e].preview_payload = executions'[e].stdout
             /\ \E outcome \in ChildOutcomes :
                  /\ outcome.exit_code = Some(0)
                  /\ executions'[e].stdout = Captured(outcome.stdout)]_vars

\* an apply child runs with the plan its prepare wrote, the prepare child of
\* this session having run without one
C34_Witness ==
  \E c \in DOMAIN tasks :
    /\ tasks[c].op = "apply"
    /\ tasks[c].env.ATOM_PHASE = "apply"
    /\ tasks[c].env.ATOM_PREVIEW_PLAN = Some("PLAN")
    /\ tasks[c].exec_id = UuidV4("execution", 1)
    /\ executions[tasks[c].exec_id].preview_payload = Some("PLAN")

\* ---- liveness of executions

\* the ids an execution row can have: that of the earlier session's row and
\* the one each call generates
ExecutionIds == {EarlierId} \cup {UuidV4("execution", c) : c \in Calls}

Unfinished(id) ==
  /\ id \in DOMAIN executions
  /\ executions[id].status \in {"Pending", "Running"}

\* C35: every execution row created by execute, prepare or an accepted apply
\* eventually leaves Pending and Running: with every spawned child ending and
\* the supervisor scheduled, the row reaches PreviewReady, Completed, Failed
\* or Stopped and never stays Pending or Running forever.
C35_EveryRowEnds ==
  \A id \in ExecutionIds : Unfinished(id) ~> ~Unfinished(id)

\* C35 for the rows whose child was spawned: a Running row does not stay
\* Running
C35_RunningRowEnds ==
  \A id \in ExecutionIds :
    (id \in DOMAIN executions /\ executions[id].status = "Running")
    ~> ~(id \in DOMAIN executions /\ executions[id].status = "Running")

\* ---- the confirm token

\* at most one token is ever issued for an execution, a row holds a token
\* only in phase Prepare, and a row in phase Apply keeps its token null
C36_TokenLifetime ==
  /\ [](\A r1, r2 \in issued : r1.id = r2.id => r1 = r2)
  /\ [](\A e \in DOMAIN executions :
          IsSome(executions[e].confirm_token) => executions[e].phase = "Prepare")
  /\ [][\A e \in DOMAIN executions :
          (executions[e].phase = "Apply" /\ e \in DOMAIN executions')
          => executions'[e].confirm_token = None]_vars

\* C36: for each execution at most one confirm token is ever issued, a
\* non-null confirm_token occurs only while phase is Prepare, and once
\* begin-apply has cleared the token it stays null in every later state;
\* consequently a token accepted once is never accepted again for that
\* execution: an apply makes its begin-apply write only on a row that still
\* holds the token the apply presented.
C36_TokenAcceptedOnce ==
  /\ C36_TokenLifetime
  /\ [][\A c \in Calls :
          (BeginsApply(c) /\ calls[c].id \in DOMAIN executions)
          => executions[calls[c].id].confirm_token = Some(calls[c].confirm_token)]_vars

\* ---- executions and their plugin

\* the step deletes the plugin row id
DeletesPlugin(id) == id \in DOMAIN plugins /\ id \notin DOMAIN plugins'

\* the step is the end of a supervisor whose row is gone
SupervisorEndsWithoutRow(c) ==
  /\ c \in DOMAIN tasks
  /\ c \notin DOMAIN tasks'
  /\ tasks[c].exec_id \notin DOMAIN executions

\* C37: every execution row's plugin_id refers to an existing plugin row;
\* uninstalling a plugin deletes all of its execution rows; a supervisor
\* that finishes after the uninstall neither recreates a row nor fails: its
\* write affects no row and the supervisor ends.
C37_ReferentialIntegrity ==
  /\ [](\A e \in DOMAIN executions : executions[e].plugin_id \in DOMAIN plugins)
  /\ [][\A id \in DOMAIN plugins :
          DeletesPlugin(id) =>
            /\ \A e \in DOMAIN executions' : executions'[e].plugin_id # id
            /\ \A e \in DOMAIN executions :
                 executions[e].plugin_id # id =>
                   e \in DOMAIN executions' /\ executions'[e] = executions[e]]_vars
  /\ [][\A c \in Calls :
          SupervisorEndsWithoutRow(c) => executions' = executions]_vars
  /\ [](\A c \in DOMAIN tasks : ENABLED supervisor_exit(c))

\* the supervisor of this session's prepare has ended after the plugin and
\* the execution row were deleted
C37_Witness ==
  /\ plugins = <<>>
  /\ executions = <<>>
  /\ tasks = <<>>
  /\ calls = <<>>
  /\ returned = None
  /\ started = 2
  /\ ~is_dir(disk, plugin_dir_for(<<"p">>))

\* ---- an apply refused at the plugin

\* the step answers apply c with the error of its plugin checks
\* (execution_service.rs:123-129)
RejectedAtPlugin(c) ==
  /\ c \in DOMAIN calls
  /\ calls[c].op = "apply"
  /\ calls[c].pc = "load_plugin"
  /\ AnswersErr(c)

\* C32 (as stated): an apply with the correct unexpired token that is
\* rejected because the plugin is disabled, its min_host_version is unmet,
\* the plugin no longer exists or the parameters fail resolution leaves the
\* execution row as it was read: PreviewReady with the same confirm_token,
\* payload and expires_at, so that a later apply with the same token can
\* still be accepted.
C32_RejectedApplyKeepsPreview ==
  [][\A c \in Calls :
       RejectedAtPlugin(c) =>
         /\ calls[c].id \in DOMAIN executions'
         /\ executions'[calls[c].id] = Unwrap(calls[c].execution)]_vars

\* C32 (amended): the rejection writes nothing: no row, task or work
\* directory changes, and a row that would still pass the checks of apply
\* with the token presented does so afterwards.  The row is missing exactly
\* when the plugin is: it was deleted with the plugin row.
C32_RejectedApplyWritesNothing ==
  [][\A c \in Calls :
       RejectedAtPlugin(c) =>
         /\ executions' = executions
         /\ tasks' = tasks
         /\ workdirs' = workdirs
         /\ (Unwrap(returned').result.err[1] = "PluginNotFound")
              <=> (calls[c].id \notin DOMAIN executions)
         /\ calls[c].id \in DOMAIN executions =>
              /\ Unwrap(returned').result.err[1] \in {"PluginDisabled", "Execution"}
              /\ ~ApplyPreconditionFails(executions[calls[c].id],
                                         calls[c].confirm_token, now)
                 => ~ApplyPreconditionFails(executions'[calls[c].id],
                                            calls[c].confirm_token, now')]_vars

\* an apply was refused for its parameters, and the row is still PreviewReady
\* with the token it presented
C32_Witness ==
  /\ ReturnedErr("apply", "Invalid provided parameter")
  /\ Unwrap(returned).id \in DOMAIN executions
  /\ executions[Unwrap(returned).id].status = "PreviewReady"
  /\ executions[Unwrap(returned).id].confirm_token =
       Some(Unwrap(returned).confirm_token)
  /\ executions[Unwrap(returned).id].preview_payload = Some("PLAN")

\* ---- update: the candidate is checked before anything is touched

\* a schema validate_parameters refuses: a string parameter with an integer
\* as default
BadSchema == << Param(Name_y, "string", Some(Int1), None) >>

\* a package of main.py, its requirements and a directory, described by `spec`
Candidate(spec) ==
  [ zip_ok |-> TRUE,
    members |-> << MetadataFile(MetadataJson, spec), File(<<"pkg", Sep>>),
                   File(<<"main.py">>), File(<<"requirements.txt">>) >> ]

\* version 1.1.0 of plugin "hello": nothing is wrong with this candidate
GoodCandidate == Metadata(V2, "python", <<"main.py">>)

\* the good candidate, and candidates with one fault each: another plugin
\* id, a plugin type that does not exist, a schema that is not valid, an
\* entry point that is blank, unsafe, or not in the package
CandidateInputs ==
  { Candidate(GoodCandidate),
    Candidate([GoodCandidate EXCEPT !.plugin_id = Some(<<"other">>)]),
    Candidate([GoodCandidate EXCEPT !.plugin_type = "ruby"]),
    Candidate([GoodCandidate EXCEPT !.parameters = Some(BadSchema)]),
    Candidate([GoodCandidate EXCEPT !.entry_point = <<"missing.py">>]) }
  \cup { Candidate([GoodCandidate EXCEPT !.entry_point = entry_point]) :
           entry_point \in BadEntryPoints }

update_candidate == UpdateEnter(CandidateInputs)

UpdateNext ==
  \/ update_candidate
  \/ \E c \in Requests : update_uninstall(c)
  \/ \E c \in Requests : uninstall_delete(c)
  \/ \E c \in Requests : update_install(c)
  \/ \E c \in Requests : install_prepare_python_env(c)
  \/ \E c \in Requests : install_create(c)

UpdateSpec == InstallInit /\ [][UpdateNext]_vars

\* what is wrong with the candidate `bytes` as an update of plugin id
CandidateFault(id, bytes) ==
  \E spec \in {PackageSpec(bytes)} :
    \/ spec.plugin_id # Some(id)
    \/ spec.plugin_type \notin {"python", "javascript", "js"}
    \/ ~validate_parameters(spec.parameters).ok
    \/ Trim(spec.entry_point) = <<>>
    \/ IsAbsolute(spec.entry_point)
    \/ HasParentDir(spec.entry_point)
    \/ \A i \in 1..Len(bytes.members) :
         bytes.members[i].name # spec.entry_point

\* C38: every check of update is made before the installed plugin is
\* touched: an update of a plugin id that is not installed returns
\* PluginNotFound, and an update whose candidate names another plugin id, an
\* invalid plugin type, an invalid parameter schema or an entry point that
\* is empty, unsafe or missing in the unpacked tree returns an error in the
\* step it enters, with the plugin rows, the plugin directories and the
\* environments unchanged.
C38_UpdateChecksFirst ==
  [][\A c \in Requests, id \in PluginIdInputs, bytes \in CandidateInputs :
       (/\ UpdateEnters(c, id, bytes)
        /\ (id \notin DOMAIN plugins \/ CandidateFault(id, bytes)))
       => /\ Responds(c)
          /\ ~responses'[c].result.ok
          /\ id \notin DOMAIN plugins
               => responses'[c].result.err[1] = "PluginNotFound"
          /\ plugins' = plugins
          /\ disk' = disk]_vars

\* an update of the installed plugin with a candidate whose schema is not
\* valid has just been refused; the installed version and its files are there
C38_Witness ==
  /\ IsSome(returned)
  /\ Unwrap(returned).op = "update"
  /\ Unwrap(returned).id = Some(Hello)
  /\ Unwrap(returned).bytes
       = Candidate([GoodCandidate EXCEPT !.parameters = Some(BadSchema)])
  /\ Unwrap(returned).result
       = Err("Execution", "Default value does not match type")
  /\ Hello \in DOMAIN plugins
  /\ plugins[Hello].version = V1
  /\ RowIntact(disk, plugins[Hello])

\* ---- update: a failed update

\* C39: update is all-or-nothing: whenever an update of an installed plugin
\* returns an error, also an error of the install of the candidate after the
\* installed version was uninstalled, the plugin row of the version that was
\* installed is still in the store and its files are on disk.
C39_UpdateAllOrNothing ==
  [][\A c \in Requests :
       (/\ Responds(c)
        /\ responses'[c].op = "update"
        /\ ~responses'[c].result.ok
        /\ IsSome(FoundInstalled(c)))
       => /\ Unwrap(responses'[c].id) \in DOMAIN plugins'
          /\ plugins'[Unwrap(responses'[c].id)] = Unwrap(FoundInstalled(c))
          /\ RowIntact(disk', plugins'[Unwrap(responses'[c].id)])]_vars

\* ------------------------------------------------------- update service

\* update_service.rs:13
PRESERVE_DIRS == {"data", "plugins", "work_dir", "conf"}

\* In this part `disk` is the install root seen by the update service:
\*   root     its entries by name, each tagged <<tree, version>> with the
\*            tree it came from (Shipped, or the staged directory);
\*   pending  the content of .update_pending.json, if the file exists;
\*   staging  the directories under .update_staging by name, each with the
\*            version in its VERSION file and the names of its entries;
\*   exe      CARGO_PKG_VERSION of the binary the running process was
\*            started from.
Shipped == <<"shipped">>

\* the version of the build that was installed
ShippedVersion == [kind |-> "semver", version |-> CARGO_PKG_VERSION]

\* what fetch_bytes, extract_zip and detect_update_root make of a package:
\* whether it is a zip archive, the entries of its update root and the
\* content of its VERSION file
UpdatePackage(version, entries) ==
  [zip_ok |-> TRUE, version |-> version, entries |-> entries]

\* two newer versions, the running version, a package without binary, one
\* without VERSION file, one whose VERSION is no version, and bytes that are
\* no archive
PackageInputs ==
  { UpdatePackage(V2, {"bin", "VERSION", "data", "conf"}),
    UpdatePackage(V1, {"bin", "VERSION", "plugins"}),
    UpdatePackage(ShippedVersion, {"bin", "VERSION"}),
    UpdatePackage(V2, {"VERSION", "data"}),
    UpdatePackage(V2, {"bin"}),
    UpdatePackage([kind |-> "invalid"], {"bin", "VERSION"}),
    [zip_ok |-> FALSE, version |-> V2, entries |-> {}] }

\* update_service.rs:263-277  read_update_version
read_update_version(package) ==
  IF "VERSION" \notin package.entries
    THEN Err("Execution", "Failed to read update version")
  ELSE IF package.version.kind = "blank"
    THEN Err("Execution", "Update version cannot be empty")
  ELSE Ok(package.version)

\* update_service.rs:279-300  ensure_newer_version of the update service;
\* `current` is CARGO_PKG_VERSION
update_ensure_newer_version(package_version, current) ==
  IF package_version.kind # "semver"
    THEN Err("Execution", "Invalid update version")
  ELSE IF ~VersionLess(current.version, package_version.version)
    THEN Err("Execution", "Update version is not newer than current version")
  ELSE Ok(<<>>)

\* update_service.rs:233-261  validate_update_root
validate_update_root(package, package_version, current) ==
  IF ~update_ensure_newer_version(package_version, current).ok
    THEN update_ensure_newer_version(package_version, current)
  ELSE IF "bin" \notin package.entries
    THEN Err("Execution", "Update package missing binary")
  ELSE Ok(<<>>)

\* update_service.rs:147-190  stage_update_root: the update root becomes
\* .update_staging/update_<uuid>
stage_update_root(d, c, package) ==
  [d EXCEPT !.staging = @ @@ (UuidV4("update", c) :>
                                [version |-> package.version,
                                 entries |-> package.entries])]

\* update_service.rs:46-83  stage_update after fetch_bytes
stage_package(d, c, package, t) ==
  IF ~package.zip_ok
    THEN [result |-> Err("Execution", "Invalid update archive"), disk |-> d]
  ELSE IF ~read_update_version(package).ok
    THEN [result |-> read_update_version(package), disk |-> d]
  ELSE IF ~validate_update_root(package, package.version, d.exe).ok
    THEN [result |-> validate_update_root(package, package.version, d.exe),
          disk |-> d]
  ELSE [result |-> Ok([restart_required |-> TRUE, current_version |-> d.exe,
                       package_version |-> package.version]),
        disk |-> [stage_update_root(d, c, package) EXCEPT
                    !.pending = Some([staged_path |-> UuidV4("update", c),
                                      created_at |-> t,
                                      package_version |->
                                        Some(package.version)])]]

\* update_service.rs:363-369  apply_update_from_staged leaves an existing
\* data, plugins, work_dir or conf of the install root alone
Preserved(root, name) == name \in PRESERVE_DIRS /\ name \in DOMAIN root

\* update_service.rs:355-389  apply_update_from_staged for the entries
\* `names` of the staged directory s: each replaces what the install root
\* has under its name
apply_entries(d, s, names) ==
  LET moved == {n \in names : ~Preserved(d.root, n)}
  IN [d EXCEPT
        !.root = [n \in DOMAIN d.root \cup moved |->
                    IF n \in moved THEN <<s, d.staging[s].version>>
                    ELSE d.root[n]],
        !.staging[s].entries = @ \ moved]

\* the ways apply_update_from_staged can fail: after the entries `done`
\* (read_dir gives the entries in any order), at entry `name`, in
\* remove_path (the destination is still there) or in the rename after it
\* (the destination is gone)
Failures(d) ==
  IF ~IsSome(d.pending) \/ Unwrap(d.pending).staged_path \notin DOMAIN d.staging
    THEN {}
  ELSE LET entries == d.staging[Unwrap(d.pending).staged_path].entries IN
       UNION { { [done |-> done, name |-> name, dest_removed |-> removed] :
                   done \in SUBSET (entries \ {name}),
                   removed \in BOOLEAN } :
               name \in {n \in entries : ~Preserved(d.root, n)} }

\* update_service.rs:86-136  apply_pending_update
apply_pending_update(d, failure) ==
  IF ~IsSome(d.pending) THEN [result |-> Ok(None), disk |-> d]
  ELSE LET staged_path == Unwrap(d.pending).staged_path IN
       IF staged_path \notin DOMAIN d.staging
         THEN [result |-> Err("Execution", "Staged update not found"),
               disk |-> d]
       ELSE IF IsSome(failure)
         THEN LET partly == apply_entries(d, staged_path, Unwrap(failure).done)
              IN [result |-> Err("Execution", "Failed to apply update"),
                  disk |-> IF Unwrap(failure).dest_removed
                           THEN [partly EXCEPT
                                   !.root = Without(@, Unwrap(failure).name)]
                           ELSE partly]
       ELSE [result |-> Ok(Some(staged_path)),
             disk |-> [apply_entries(d, staged_path,
                                     d.staging[staged_path].entries)
                         EXCEPT !.pending = None,
                                !.staging = Without(@, staged_path)]]

\* ---- the update service's calls

\* update_service.rs:37-46  stage_update up to fetch_bytes(..).await
stage_update ==
  /\ started < MaxRequests
  /\ started' = started + 1
  /\ \E bytes \in PackageInputs :
       IF IsSome(disk.pending)
         THEN Respond(started + 1, NewRequest("stage_update", None, bytes),
                      Err("Execution", "An update is already pending. Restart to apply it first."))
         ELSE Proceed(started + 1,
                      [NewRequest("stage_update", None, bytes) EXCEPT
                         !.pc = "fetch_bytes"])
  /\ UNCHANGED <<plugins, disk>>
  /\ Untouched

\* update_service.rs:46-83  the package has arrived: the rest of stage_update
stage_update_fetched(c) ==
  /\ c \in DOMAIN calls
  /\ calls[c].op = "stage_update"
  /\ calls[c].pc = "fetch_bytes"
  /\ \E staged \in {stage_package(disk, c, calls[c].bytes, now)} :
       /\ disk' = staged.disk
       /\ Respond(c, calls[c], staged.result)
  /\ UNCHANGED <<plugins, started>>
  /\ Untouched

\* main.rs:39-41  the node is started again from the binary in bin: the
\* calls of the old process are gone, and apply_pending_update runs before
\* the server listens
run_server ==
  /\ "bin" \in DOMAIN disk.root
  /\ \E failure \in {None} \cup { Some(f) : f \in Failures(disk) } :
     \E applied \in {apply_pending_update(disk, failure)} :
       /\ disk' = [applied.disk EXCEPT !.exe = disk.root["bin"][2]]
       /\ returned' = Some([c |-> 0, op |-> "apply_pending_update",
                            id |-> None, bytes |-> None,
                            result |-> applied.result])
  /\ calls' = <<>>
  /\ UNCHANGED <<plugins, responses, started>>
  /\ Untouched

\* the install root as shipped, and with the directories the node has made
ShippedEntries == { {"bin", "VERSION"}, {"bin", "VERSION"} \cup PRESERVE_DIRS }

SelfUpdateInit ==
  /\ \E names \in ShippedEntries :
       disk = [root |-> [n \in names |-> <<Shipped, ShippedVersion>>],
               pending |-> None, staging |-> <<>>, exe |-> ShippedVersion]
  /\ plugins = <<>>
  /\ responses = <<>>
  /\ executions = <<>>
  /\ workdirs = {}
  /\ order = <<>>
  /\ issued = {}
  /\ now = 0
  /\ ticks = 0
  /\ started = 0
  /\ calls = <<>>
  /\ returned = None
  /\ tasks = <<>>

SelfUpdateNext ==
  \/ stage_update
  \/ \E c \in Requests : stage_update_fetched(c)
  \/ run_server

SelfUpdateSpec == SelfUpdateInit /\ [][SelfUpdateNext]_vars

\* the staged directory the marker names, if there is a marker
PendingPath(d) == IF IsSome(d.pending) THEN {Unwrap(d.pending).staged_path} ELSE {}

\* in this step stage_update stages a package for call c
Stages(c) ==
  /\ Responds(c)
  /\ responses'[c].op = "stage_update"
  /\ responses'[c].result.ok

\* in this step a start of the node applies the pending update, to the end
\* or not
Applies ==
  /\ IsSome(returned')
  /\ Unwrap(returned').op = "apply_pending_update"
  /\ IsSome(disk.pending)
  /\ Unwrap(disk.pending).staged_path \in DOMAIN disk.staging

\* only a version strictly newer than the running one is staged; a start
\* of the node never replaces an existing data, plugins, work_dir or conf
\* of the install root; the marker is removed only when every entry of the
\* staged directory is in the install root or was left out for a preserved
\* directory, and a start that fails to apply keeps the marker and the
\* staged directory
C40_StagesNewerAppliesSafely ==
  [][/\ \A c \in Requests :
          Stages(c) =>
            /\ VersionLess(disk.exe.version, responses'[c].bytes.version.version)
            /\ disk'.pending
                 = Some([staged_path |-> UuidV4("update", c),
                         created_at |-> now,
                         package_version |-> Some(responses'[c].bytes.version)])
            /\ UuidV4("update", c) \in DOMAIN disk'.staging
     /\ \A n \in PRESERVE_DIRS :
          n \in DOMAIN disk.root =>
            n \in DOMAIN disk'.root /\ disk'.root[n] = disk.root[n]
     /\ Applies =>
          \E s \in PendingPath(disk) :
            IF Unwrap(returned').result.ok
              THEN /\ disk'.pending = None
                   /\ s \notin DOMAIN disk'.staging
                   /\ \A n \in disk.staging[s].entries :
                        \/ disk'.root[n] = <<s, disk.staging[s].version>>
                        \/ Preserved(disk.root, n)
              ELSE /\ disk'.pending = disk.pending
                   /\ s \in DOMAIN disk'.staging
     /\ (IsSome(disk.pending) /\ ~IsSome(disk'.pending)) => Applies]_vars

\* C40: at most one update is pending at any time: stage_update fails
\* while the pending marker exists, so every staged directory is the one
\* the marker names, and a stage_update that succeeds found no marker to
\* overwrite; only a version strictly newer than the running one is staged;
\* a start of the node never replaces an existing data, plugins, work_dir or
\* conf, and removes the marker only after all staged entries were applied.
C40_OnePendingUpdate ==
  /\ [](\A s \in DOMAIN disk.staging : s \in PendingPath(disk))
  /\ [][\A c \in Requests : Stages(c) => ~IsSome(disk.pending)]_vars
  /\ C40_StagesNewerAppliesSafely

====
